---- MODULE Spec2Model ----
(***************************************************************************)
(* Model of the triage decision pipeline of the snorlax backend:           *)
(*   services/ai/triage_optimizer.py  (rule engine, response cache, LLM)   *)
(*   api/triage.py                    (analyze endpoint, normalizer)       *)
(*                                                                         *)
(* Conventions                                                             *)
(*   - a Python dict is a record; d.get(k, default) is Get(d, k, default); *)
(*   - Python None is the record None;                                     *)
(*   - a Python str that the code inspects (title, body) is a sequence of  *)
(*     one-character strings; an Optional[str] is None or Str(s);          *)
(*   - a call's outcome is Return(v) or Raise(e);                          *)
(*   - similarities are integers in thousandths (the searches round to     *)
(*     three decimals, embeddings.py:261), money is in 1e-4 USD.           *)
(***************************************************************************)
EXTENDS Integers, Sequences, FiniteSets, TLC

VARIABLES
    ruleIn,                 \* arguments of the apply_smart_rules call under study
    ruleOut,                \* its outcome, Pending before the call
    github_issues,          \* table github_issues: issue_number -> row
    claude_response_cache,  \* table claude_response_cache: cache_key -> entry
    now,                    \* datetime.now(), in days
    api_costs,              \* table api_costs: the row of today
    pc,                     \* position of the analyze request in its handler
    request,                \* issue_number of the current / last request
    cur_issue,              \* handler locals: issue,
    cur_repo_url,           \*   repo_url,
    cur_evidence,           \*   similar_issues, similar_prs, code_matches, doc_links,
    cur_web,                \*   stackoverflow_results, github_results,
    cur_key,                \*   cache_key,
    cur_result,             \*   rule_result / result
    response,               \* what the last request answered
    calls,                  \* collaborator invocations of the current / last request
    ana_out,                \* outcome of analyze_with_claude_optimized in that request
    keyIn,                  \* two calls whose cache keys are compared
    keyOut,                 \* their keys, Pending before they are computed
    normIn,                 \* a Decision handed to the normalizer, with its origin
    normOut,                \* the normalized Decision, Pending before the call
    workers,                \* concurrent analyze calls: worker -> its position and locals
    last_commit,            \* cache_key -> payload of the save that committed last
    internet_search_cache,  \* table internet_search_cache: query_hash -> entry
    github_token,           \* whether the optimizer was built with a GitHub token
    searchOut,              \* the last external search: its arguments and outcome
    llm_log,                \* history: cache_key -> last Decision obtained from the LLM
    tracker_calls,          \* concurrent _track_cost_savings calls: caller -> position, arguments
    api_costs_tx,           \* the uncommitted version of today's row and its transaction
    api_costs_before,       \* today's row before the concurrent calls
    costIn,                 \* the usage report of an LLM reply
    costOut,                \* the api_cost computed from it, Pending before
    batch_triage_status,    \* triage.py batch_triage_status[project_id], None when absent
    issue_categories,       \* table issue_categories: issue numbers with a stored triage
    batch_tasks,            \* background tasks: task -> position, issue_numbers, i
    batch_poll,             \* what the last status poll returned, and the triages under way
    fetch_args,             \* fetch_with_batches: batch_size, skip_first, max_batches
    fetch_pc,               \*   position of the coroutine
    batch_num,              \*   its locals batch_num,
    total_imported,         \*   total_imported,
    limit_reached,          \*   limit_reached
    fetch_calls,            \* number of fetch_func calls of the invocation
    fetch_out,              \* what fetch_with_batches returned
    max_retries,            \* retry_with_exponential_backoff: the decorator's max_retries
    retry_pc,               \*   position of the wrapper
    attempt,                \*   its loop variable
    retry_log,              \* what each invocation of the wrapped function did, and the sleep
    retry_out,              \* what the wrapper returned or raised
    GITHUB_WEBHOOK_SECRET,  \* api/webhooks.py: the secret read from the environment
    github_prs,             \* table github_prs: pr_number -> row
    hook_request,           \* the last POST /api/webhooks/github: headers and body
    hook_handlers,          \* the event handlers run so far, with their action
    hook_response           \* what the last webhook request answered

ruleVars == <<ruleIn, ruleOut>>
storeVars == <<github_issues, claude_response_cache, now, api_costs>>
localVars == <<cur_issue, cur_repo_url, cur_evidence, cur_web, cur_key, cur_result>>
reqVars == <<pc, request, response, calls, ana_out, llm_log>>
keyVars == <<keyIn, keyOut>>
poolVars == <<workers, last_commit>>
\* the variables of the function-level specifications
searchVars == <<internet_search_cache, github_token, searchOut>>
normVars == <<normIn, normOut>>
trackVars == <<tracker_calls, api_costs_tx, api_costs_before>>
costVars == <<costIn, costOut>>
batchVars == <<batch_triage_status, issue_categories, batch_tasks, batch_poll>>
fetchVars == <<fetch_args, fetch_pc, batch_num, total_imported, limit_reached,
               fetch_calls, fetch_out>>
retryVars == <<max_retries, retry_pc, attempt, retry_log, retry_out>>
hookVars == <<GITHUB_WEBHOOK_SECRET, github_prs, hook_request, hook_handlers,
              hook_response>>
auxVars == <<trackVars, costVars, batchVars, fetchVars, retryVars, hookVars>>
exceptTrack == <<costVars, batchVars, fetchVars, retryVars, hookVars>>
exceptCost == <<trackVars, batchVars, fetchVars, retryVars, hookVars>>
exceptBatch == <<trackVars, costVars, fetchVars, retryVars, hookVars>>
exceptFetch == <<trackVars, costVars, batchVars, retryVars, hookVars>>
exceptRetry == <<trackVars, costVars, batchVars, fetchVars, hookVars>>
exceptHook == <<trackVars, costVars, batchVars, fetchVars, retryVars>>
oldBench == <<ruleVars, keyVars, normVars, poolVars, searchVars>>
benchVars == <<oldBench, auxVars>>
vars == <<benchVars, storeVars, localVars, reqVars>>

----------------------------------------------------------------------------
(* Python values *)

None == [py_none |-> TRUE]
Str(s) == [str |-> s]
Return(v) == [kind |-> "return", value |-> v]
Raise(e) == [kind |-> "raise", error |-> e]
Pending == [kind |-> "pending"]
Get(d, k, default) == IF k \in DOMAIN d THEN d[k] ELSE default
Min(a, b) == IF a < b THEN a ELSE b
Take(s, n) == SubSeq(s, 1, Min(Len(s), n))

\* str.lower() on the alphabet the sample texts use
LowerChar(c) ==
    CASE c = "A" -> "a"
      [] c = "B" -> "b"
      [] c = "E" -> "e"
      [] OTHER -> c
Lower(s) == [i \in 1..Len(s) |-> LowerChar(s[i])]

\* Python's `pat in s` on strings: substring
Contains(s, pat) ==
    \E i \in 1..(Len(s) - Len(pat) + 1) : SubSeq(s, i, i + Len(pat) - 1) = pat

----------------------------------------------------------------------------
(* TriageOptimizer: thresholds and the rule engine *)

DUPLICATE_THRESHOLD == 950
DOCS_THRESHOLD == 800
CODE_THRESHOLD == 800
RULE_COST_SAVED == 200

feature_indicators == {
    <<"a","d","d">>,
    <<"s","u","p","p","o","r","t">>,
    <<"i","m","p","l","e","m","e","n","t">>,
    <<"a","l","l","o","w">>,
    <<"e","n","a","b","l","e">>,
    <<"w","o","u","l","d"," ","b","e"," ","n","i","c","e">>,
    <<"c","o","u","l","d"," ","w","e">>,
    <<"f","e","a","t","u","r","e"," ","r","e","q","u","e","s","t">>,
    <<"e","n","h","a","n","c","e","m","e","n","t">>,
    <<"s","u","g","g","e","s","t","i","o","n">> }

\* issue.get('body', '').lower() raises AttributeError when the stored body
\* is NULL: the key is present, so the default '' is not used.
_is_feature_request(issue) ==
    LET body == Get(issue, "body", Str(<<>>)) IN
    IF body = None
    THEN Raise("AttributeError")
    ELSE Return(\E indicator \in feature_indicators :
                    \/ Contains(Lower(issue.title), indicator)
                    \/ Contains(Lower(body.str), indicator))

\* int(similarity * 100) of the evidence bullets
Percent(similarity) == similarity \div 10

_generate_duplicate_response(issue, duplicate) ==
    [template |-> "duplicate", issue_ref |-> duplicate.issue_number,
     state |-> duplicate.state]

_generate_docs_response(issue, doc) ==
    [template |-> "docs", file_ref |-> doc.filename, how_to |-> Lower(issue.title)]

_generate_exists_response(issue, code) ==
    [template |-> "exists", file_ref |-> code.filename,
     start_line |-> code.start_line, end_line |-> code.end_line]

Rule1Result(issue, duplicate, repo_url) ==
    [decision |-> "CLOSE_DUPLICATE",
     primary_message |-> [msg |-> "same_as_issue", issue_ref |-> duplicate.issue_number],
     evidence_bullets |-> [pct |-> Percent(duplicate.similarity),
                           issue_ref |-> duplicate.issue_number,
                           state |-> duplicate.state],
     draft_response |-> _generate_duplicate_response(issue, duplicate),
     action_button_text |-> [msg |-> "post_close_duplicate",
                             issue_ref |-> duplicate.issue_number],
     action_button_style |-> "danger",
     related_links |-> << [issue_ref |-> duplicate.issue_number,
                           base |-> repo_url, source |-> "github"] >>,
     confidence |-> duplicate.similarity,
     cost_saved |-> RULE_COST_SAVED,
     rule_matched |-> "exact_duplicate"]

Rule2Result(issue, doc, repo_url) ==
    [decision |-> "ANSWER_FROM_DOCS",
     primary_message |-> [msg |-> "explained_in_docs"],
     evidence_bullets |-> [pct |-> Percent(doc.similarity), file_ref |-> doc.filename],
     draft_response |-> _generate_docs_response(issue, doc),
     action_button_text |-> [msg |-> "post_answer_close"],
     action_button_style |-> "success",
     related_links |-> << [file_ref |-> doc.filename, base |-> repo_url,
                           line |-> IF repo_url # None /\ "start_line" \in DOMAIN doc
                                    THEN doc.start_line ELSE 0,
                           source |-> IF repo_url # None THEN "github" ELSE "docs"] >>,
     confidence |-> doc.similarity,
     cost_saved |-> RULE_COST_SAVED,
     rule_matched |-> "found_in_docs"]

Rule3Result(issue, code, repo_url) ==
    [decision |-> "CLOSE_EXISTS",
     primary_message |-> [msg |-> "feature_exists"],
     evidence_bullets |-> [pct |-> Percent(code.similarity), file_ref |-> code.filename,
                           start_line |-> code.start_line, end_line |-> code.end_line],
     draft_response |-> _generate_exists_response(issue, code),
     action_button_text |-> [msg |-> "post_explanation_close"],
     action_button_style |-> "primary",
     related_links |-> << [file_ref |-> code.filename, base |-> repo_url,
                           line |-> code.start_line,
                           source |-> IF repo_url # None THEN "github" ELSE "internal"] >>,
     confidence |-> code.similarity,
     cost_saved |-> RULE_COST_SAVED,
     rule_matched |-> "exists_in_code"]

\* mutant: the documentation rule tried before the duplicate rule
apply_smart_rules_docs_first(issue, similar_issues, code_matches, doc_links, repo_url) ==
    IF /\ Len(doc_links) > 0
       /\ Get(doc_links[1], "similarity", 0) > DOCS_THRESHOLD
    THEN Return(Rule2Result(issue, doc_links[1], repo_url))
    ELSE IF /\ Len(similar_issues) > 0
            /\ Get(similar_issues[1], "similarity", 0) > DUPLICATE_THRESHOLD
    THEN Return(Rule1Result(issue, similar_issues[1], repo_url))
    ELSE IF /\ Len(code_matches) > 0
            /\ Get(code_matches[1], "similarity", 0) > CODE_THRESHOLD
    THEN LET fr == _is_feature_request(issue) IN
         IF fr.kind = "raise" THEN fr
         ELSE IF fr.value THEN Return(Rule3Result(issue, code_matches[1], repo_url))
         ELSE Return(None)
    ELSE Return(None)

\* mutant: thresholds compared with >= instead of >
apply_smart_rules_inclusive(issue, similar_issues, code_matches, doc_links, repo_url) ==
    IF /\ Len(similar_issues) > 0
       /\ Get(similar_issues[1], "similarity", 0) >= DUPLICATE_THRESHOLD
    THEN Return(Rule1Result(issue, similar_issues[1], repo_url))
    ELSE IF /\ Len(doc_links) > 0
            /\ Get(doc_links[1], "similarity", 0) >= DOCS_THRESHOLD
    THEN Return(Rule2Result(issue, doc_links[1], repo_url))
    ELSE IF /\ Len(code_matches) > 0
            /\ Get(code_matches[1], "similarity", 0) >= CODE_THRESHOLD
    THEN LET fr == _is_feature_request(issue) IN
         IF fr.kind = "raise" THEN fr
         ELSE IF fr.value THEN Return(Rule3Result(issue, code_matches[1], repo_url))
         ELSE Return(None)
    ELSE Return(None)

apply_smart_rules(issue, similar_issues, code_matches, doc_links, repo_url) ==
    IF /\ Len(similar_issues) > 0
       /\ Get(similar_issues[1], "similarity", 0) > DUPLICATE_THRESHOLD
    THEN Return(Rule1Result(issue, similar_issues[1], repo_url))
    ELSE IF /\ Len(doc_links) > 0
            /\ Get(doc_links[1], "similarity", 0) > DOCS_THRESHOLD
    THEN Return(Rule2Result(issue, doc_links[1], repo_url))
    ELSE IF /\ Len(code_matches) > 0
            /\ Get(code_matches[1], "similarity", 0) > CODE_THRESHOLD
    THEN LET fr == _is_feature_request(issue) IN
         IF fr.kind = "raise" THEN fr
         ELSE IF fr.value THEN Return(Rule3Result(issue, code_matches[1], repo_url))
         ELSE Return(None)
    ELSE Return(None)

----------------------------------------------------------------------------
(* TriageOptimizer: response cache (claude_response_cache) *)

BODY_KEY_CHARS == 500
TOP_SIMILAR_KEPT == 3
RESPONSE_TTL_DAYS == 7
CACHE_COST_SAVED == 150

\* json.dumps of a list of identifiers, one token per element
json_dumps_list(l) ==
    <<"[">> \o [i \in 1..Len(l) |-> ToString(l[i])] \o <<"]">>

\* hashlib.sha256(...).hexdigest() is taken to be injective: the key is the
\* hashed text f"{title}:{body[:500]}:{json.dumps(top_similar[:3])}".
\* issue.get('body', '')[:500] raises TypeError when the stored body is NULL.
_get_cache_key(issue, context) ==
    LET body == Get(issue, "body", Str(<<>>))
        similar == json_dumps_list(Take(Get(context, "top_similar", <<>>),
                                        TOP_SIMILAR_KEPT))
    IN IF body = None
       THEN Raise("TypeError")
       ELSE Return(issue.title \o <<":">> \o Take(body.str, BODY_KEY_CHARS)
                   \o <<":">> \o similar)

\* SELECT response, expires_at ... ; any exception is swallowed: a miss
\* mutant: an entry is still served at the instant it expires
_check_response_cache_inclusive(table, key, t, db_fails) ==
    IF db_fails THEN None
    ELSE IF key \in DOMAIN table /\ table[key].expires_at >= t
    THEN table[key].response
    ELSE None

\* mutant: an entry stops being served a day before it expires
_check_response_cache_day_early(table, key, t, db_fails) ==
    IF db_fails THEN None
    ELSE IF key \in DOMAIN table /\ table[key].expires_at > t + 1
    THEN table[key].response
    ELSE None

_check_response_cache(table, key, t, db_fails) ==
    IF db_fails THEN None
    ELSE IF key \in DOMAIN table /\ table[key].expires_at > t
    THEN table[key].response
    ELSE None

\* INSERT ... ON CONFLICT (cache_key) DO UPDATE ...; any exception is swallowed
\* mutant: ON CONFLICT DO NOTHING, the first payload of a key stays
_save_response_cache_keep_first(table, key, resp, t, db_fails) ==
    IF db_fails \/ key \in DOMAIN table THEN table
    ELSE (key :> [response |-> resp, created_at |-> t,
                  expires_at |-> t + RESPONSE_TTL_DAYS]) @@ table

_save_response_cache(table, key, resp, t, db_fails) ==
    IF db_fails THEN table
    ELSE (key :> [response |-> resp, created_at |-> t,
                  expires_at |-> t + RESPONSE_TTL_DAYS]) @@ table

----------------------------------------------------------------------------
(* TriageOptimizer.analyze_with_claude_optimized: the LLM tier *)

\* External searches (search_stackoverflow, search_github_issues)

SEARCH_TTL_DAYS == 1        \* timedelta(hours=24), the clock counts days
MAX_RESULTS == 5

\* Python truthiness of an Optional[List]
Truthy(v) == v # None /\ v # <<>>

_check_internet_cache(table, key, t, db_fails) ==
    IF db_fails THEN None
    ELSE IF key \in DOMAIN table /\ table[key].expires_at > t
    THEN table[key].results
    ELSE None

_save_internet_cache(table, key, results, t, db_fails) ==
    IF db_fails THEN table
    ELSE (key :> [results |-> results, created_at |-> t,
                  expires_at |-> t + SEARCH_TTL_DAYS]) @@ table

\* one entry of the result list; a missing key raises KeyError
StackOverflowEntry(item) ==
    IF {"title", "link", "score"} \subseteq DOMAIN item
    THEN Return([title |-> item.title, url |-> item.link, score |-> item.score,
                 accepted |-> Get(item, "is_answered", FALSE)])
    ELSE Raise("KeyError")

GitHubEntry(item) ==
    IF {"title", "html_url", "repository_url", "state", "comments"}
          \subseteq DOMAIN item
    THEN Return([title |-> item.title, url |-> item.html_url,
                 repo |-> item.repository_url[Len(item.repository_url)],
                 state |-> item.state, comments |-> item.comments])
    ELSE Raise("KeyError")

\* what a search hands back: its outcome, the table afterwards, whether a
\* request was sent, and what became of the cache lookup and the cache save
SearchResult(outcome, table, requested, lookup, save) ==
    [outcome |-> outcome, table |-> table, requested |-> requested,
     lookup |-> lookup, save |-> save]

\* the try block of both searches: the request, the status test, the JSON
\* parse, the list comprehension over items[:5], the save
FetchAndCache(table, key, t, lookup, reply, source, save_fails) ==
    IF reply.kind # "ok"
    THEN SearchResult(Return(<<>>), table, TRUE, lookup, "none")
    ELSE LET items == Take(Get(reply.data, "items", <<>>), MAX_RESULTS)
             entries == [i \in 1..Len(items) |->
                            IF source = "stackoverflow"
                            THEN StackOverflowEntry(items[i])
                            ELSE GitHubEntry(items[i])]
         IN IF \E i \in 1..Len(items) : entries[i].kind = "raise"
            THEN SearchResult(Return(<<>>), table, TRUE, lookup, "none")
            ELSE LET results == [i \in 1..Len(items) |-> entries[i].value]
                 IN SearchResult(Return(results),
                        _save_internet_cache(table, key, results, t, save_fails),
                        TRUE, lookup,
                        IF save_fails THEN "failed" ELSE "ok")

LookupEvent(cached, lookup_fails) ==
    IF lookup_fails THEN "failed"
    ELSE IF Truthy(cached) THEN "hit" ELSE "miss"

\* mutant: the JSON parse is not under the try block
search_stackoverflow_unguarded(table, issue, t, lookup_fails, reply, save_fails) ==
    IF "title" \notin DOMAIN issue
    THEN SearchResult(Raise("KeyError"), table, FALSE, "none", "none")
    ELSE
    LET cache_key == <<"stackoverflow", ":">> \o issue.title
        cached == _check_internet_cache(table, cache_key, t, lookup_fails)
    IN IF Truthy(cached)
       THEN SearchResult(Return(cached), table, FALSE, "hit", "none")
       ELSE IF reply.kind = "unparsable"
       THEN SearchResult(Raise("JSONDecodeError"), table, TRUE,
                         LookupEvent(cached, lookup_fails), "none")
       ELSE FetchAndCache(table, cache_key, t,
                          LookupEvent(cached, lookup_fails), reply,
                          "stackoverflow", save_fails)

search_stackoverflow(table, issue, t, lookup_fails, reply, save_fails) ==
    IF "title" \notin DOMAIN issue
    THEN SearchResult(Raise("KeyError"), table, FALSE, "none", "none")
    ELSE
    LET cache_key == <<"stackoverflow", ":">> \o issue.title
        cached == _check_internet_cache(table, cache_key, t, lookup_fails)
    IN IF Truthy(cached)
       THEN SearchResult(Return(cached), table, FALSE, "hit", "none")
       ELSE FetchAndCache(table, cache_key, t,
                          LookupEvent(cached, lookup_fails), reply,
                          "stackoverflow", save_fails)

search_github_issues(table, issue, t, token, lookup_fails, reply, save_fails) ==
    IF ~token
    THEN SearchResult(Return(<<>>), table, FALSE, "none", "none")
    ELSE IF "title" \notin DOMAIN issue
    THEN SearchResult(Raise("KeyError"), table, FALSE, "none", "none")
    ELSE
    LET cache_key == <<"github", ":">> \o issue.title
        cached == _check_internet_cache(table, cache_key, t, lookup_fails)
    IN IF Truthy(cached)
       THEN SearchResult(Return(cached), table, FALSE, "hit", "none")
       ELSE FetchAndCache(table, cache_key, t,
                          LookupEvent(cached, lookup_fails), reply,
                          "github", save_fails)

----------------------------------------------------------------------------
(* LLM tier *)

Set(d, k, v) == (k :> v) @@ d
SetDefault(d, k, v) == IF k \in DOMAIN d THEN d ELSE d @@ (k :> v)

DecisionValues == {"CLOSE_DUPLICATE", "CLOSE_FIXED", "CLOSE_EXISTS",
                   "NEEDS_INVESTIGATION", "VALID_FEATURE", "NEEDS_INFO",
                   "ANSWER_FROM_DOCS", "INVALID"}

\* token prices in 1e-8 USD per token: 3 USD per million input tokens,
\* x1.25 for cache writes, x0.1 for cache reads, 15 USD per million output
INPUT_PRICE == 300
CACHE_WRITE_PRICE == 375
CACHE_READ_PRICE == 30
OUTPUT_PRICE == 1500
ROUND_UNIT == 10000

\* round(x, 4): to the nearest 1e-4 USD
Round4(units) == (units + ROUND_UNIT \div 2) \div ROUND_UNIT

api_cost(usage) ==
    LET regular_input == usage.input_tokens - usage.cache_read_tokens
                         - usage.cache_write_tokens
        cache_write_cost == usage.cache_write_tokens * CACHE_WRITE_PRICE
        cache_read_cost == usage.cache_read_tokens * CACHE_READ_PRICE
        regular_input_cost == regular_input * INPUT_PRICE
        output_cost == usage.output_tokens * OUTPUT_PRICE
    IN [input_tokens |-> usage.input_tokens,
        output_tokens |-> usage.output_tokens,
        cache_read_tokens |-> usage.cache_read_tokens,
        cache_write_tokens |-> usage.cache_write_tokens,
        input_cost_usd |-> Round4(regular_input_cost + cache_write_cost
                                  + cache_read_cost),
        output_cost_usd |-> Round4(output_cost),
        total_cost_usd |-> Round4(regular_input_cost + cache_write_cost
                                  + cache_read_cost + output_cost)]

FallbackDecision(e) ==
    [decision |-> "NEEDS_INVESTIGATION",
     primary_message |-> [msg |-> "could_not_analyze"],
     evidence_bullets |-> [pct |-> 0, msg |-> "ai_failed_manual_review"],
     draft_response |-> [template |-> "thanks_will_review"],
     action_button_text |-> [msg |-> "mark_for_review"],
     action_button_style |-> "warning",
     error |-> e]

\* The try block: messages.create, json.loads of the reply, the cost fields.
\* llm is what the client did: it raised, or it returned a text that is no
\* JSON, JSON that is no object, or a JSON object.
ParseLLMResponse(llm) ==
    IF llm.kind = "raise" THEN Raise("APIError")
    ELSE IF llm.json = "invalid" THEN Raise("JSONDecodeError")
    ELSE IF llm.json = "non_object" THEN Raise("TypeError")
    ELSE Return(Set(Set(Set(llm.object, "api_cost", api_cost(llm.usage)),
                        "from_cache", FALSE),
                    "images_analyzed", 0))

\* the cache-hit branch
FromCache(cached) == Set(Set(cached, "from_cache", TRUE), "cost_saved", CACHE_COST_SAVED)

----------------------------------------------------------------------------
(* api/triage.py: the normalizer _transform_analysis_result *)

DECISION_TO_CATEGORY ==
    [CLOSE_DUPLICATE |-> "bug", CLOSE_FIXED |-> "bug",
     CLOSE_EXISTS |-> "feature_request", NEEDS_INVESTIGATION |-> "bug",
     VALID_FEATURE |-> "feature_request", NEEDS_INFO |-> "question",
     ANSWER_FROM_DOCS |-> "question", INVALID |-> "low_priority"]

DECISION_TO_CONFIDENCE ==
    [CLOSE_DUPLICATE |-> 950, CLOSE_FIXED |-> 850, CLOSE_EXISTS |-> 850,
     NEEDS_INVESTIGATION |-> 700, VALID_FEATURE |-> 800, NEEDS_INFO |-> 750,
     ANSWER_FROM_DOCS |-> 900, INVALID |-> 650]

priority_map ==
    [CLOSE_DUPLICATE |-> 3, NEEDS_INVESTIGATION |-> 8, VALID_FEATURE |-> 6,
     NEEDS_INFO |-> 5]

DEFAULT_CATEGORY == "question"
DEFAULT_CONFIDENCE == 750
DEFAULT_PRIORITY == 5

\* mutant: priority_score is only set for the decisions of priority_map
_transform_analysis_result_listed_priorities(r) ==
    IF ~("decision" \in DOMAIN r /\ r.decision # "") THEN r
    ELSE
    LET decision == r.decision
        r1 == Set(r, "primary_category",
                  Get(DECISION_TO_CATEGORY, decision, DEFAULT_CATEGORY))
        r2 == SetDefault(r1, "confidence",
                         Get(DECISION_TO_CONFIDENCE, decision, DEFAULT_CONFIDENCE))
        r3 == IF "primary_message" \in DOMAIN r2
              THEN SetDefault(r2, "reasoning", r2.primary_message) ELSE r2
        action_text == Get(r3, "action_button_text", [msg |-> "post_comment"])
        response_type == Get(r3, "action_button_style", "primary")
        r4 == IF "draft_response" \in DOMAIN r3
                 /\ Get(r3, "suggested_responses", <<>>) = <<>>
              THEN Set(r3, "suggested_responses",
                       << [type |-> response_type, title |-> action_text,
                           body |-> r3.draft_response,
                           actions |-> <<action_text>>] >>)
              ELSE r3
        r5 == SetDefault(SetDefault(SetDefault(SetDefault(r4,
                    "duplicate_of", None), "related_prs", <<>>),
                    "doc_links", <<>>), "tags", <<>>)
        r6 == IF decision \in DOMAIN priority_map
              THEN SetDefault(r5, "priority_score", priority_map[decision])
              ELSE r5
    IN SetDefault(r6, "needs_response",
                  decision \in {"NEEDS_INFO", "ANSWER_FROM_DOCS"})

\* mutant: the confidence is always taken from the table
_transform_analysis_result_table_confidence(r) ==
    IF ~("decision" \in DOMAIN r /\ r.decision # "") THEN r
    ELSE
    LET decision == r.decision
        r1 == Set(r, "primary_category",
                  Get(DECISION_TO_CATEGORY, decision, DEFAULT_CATEGORY))
        r2 == Set(r1, "confidence",
                         Get(DECISION_TO_CONFIDENCE, decision, DEFAULT_CONFIDENCE))
        r3 == IF "primary_message" \in DOMAIN r2
              THEN SetDefault(r2, "reasoning", r2.primary_message) ELSE r2
        action_text == Get(r3, "action_button_text", [msg |-> "post_comment"])
        response_type == Get(r3, "action_button_style", "primary")
        r4 == IF "draft_response" \in DOMAIN r3
                 /\ Get(r3, "suggested_responses", <<>>) = <<>>
              THEN Set(r3, "suggested_responses",
                       << [type |-> response_type, title |-> action_text,
                           body |-> r3.draft_response,
                           actions |-> <<action_text>>] >>)
              ELSE r3
        r5 == SetDefault(SetDefault(SetDefault(SetDefault(r4,
                    "duplicate_of", None), "related_prs", <<>>),
                    "doc_links", <<>>), "tags", <<>>)
        r6 == SetDefault(r5, "priority_score",
                         Get(priority_map, decision, DEFAULT_PRIORITY))
    IN SetDefault(r6, "needs_response",
                  decision \in {"NEEDS_INFO", "ANSWER_FROM_DOCS"})

\* Only a result with a truthy 'decision' is transformed.
_transform_analysis_result(r) ==
    IF ~("decision" \in DOMAIN r /\ r.decision # "") THEN r
    ELSE
    LET decision == r.decision
        r1 == Set(r, "primary_category",
                  Get(DECISION_TO_CATEGORY, decision, DEFAULT_CATEGORY))
        r2 == SetDefault(r1, "confidence",
                         Get(DECISION_TO_CONFIDENCE, decision, DEFAULT_CONFIDENCE))
        r3 == IF "primary_message" \in DOMAIN r2
              THEN SetDefault(r2, "reasoning", r2.primary_message) ELSE r2
        action_text == Get(r3, "action_button_text", [msg |-> "post_comment"])
        response_type == Get(r3, "action_button_style", "primary")
        r4 == IF "draft_response" \in DOMAIN r3
                 /\ Get(r3, "suggested_responses", <<>>) = <<>>
              THEN Set(r3, "suggested_responses",
                       << [type |-> response_type, title |-> action_text,
                           body |-> r3.draft_response,
                           actions |-> <<action_text>>] >>)
              ELSE r3
        r5 == SetDefault(SetDefault(SetDefault(SetDefault(r4,
                    "duplicate_of", None), "related_prs", <<>>),
                    "doc_links", <<>>), "tags", <<>>)
        r6 == SetDefault(r5, "priority_score",
                         Get(priority_map, decision, DEFAULT_PRIORITY))
    IN SetDefault(r6, "needs_response",
                  decision \in {"NEEDS_INFO", "ANSWER_FROM_DOCS"})

\* the context dict the analyze endpoint hands to the LLM tier
BuildContext(ev, web_results) ==
    [similar_issues |-> Take(ev.similar_issues, 3),
     similar_prs |-> Take(ev.similar_prs, 3),
     code_matches |-> Take(ev.code_matches, 3),
     doc_links |-> Take(ev.doc_links, 3),
     stackoverflow |-> web_results.stackoverflow,
     github_issues |-> web_results.github_issues]

----------------------------------------------------------------------------
(* The stores and the analyze request, before any request *)

MaxIssue == 4
MaxTracked == 2
MaxProcs == 2
MaxTasks == 2
MaxTime == 7

TitleBug == <<"B","u","g">>
TitleAdd == <<"A","d","d"," ","x">>
BodyPlain == <<"o","k">>
BodyEnable == <<"E","n","a","b","l","e">>

\* github_issues as the import and the webhook leave it: issue 2 was
\* delivered without a description (body NULL), issue MaxIssue is not stored
StoredIssues ==
    (1 :> [title |-> TitleBug, body |-> Str(<<>>), state |-> "open"]) @@
    (2 :> [title |-> TitleAdd, body |-> None, state |-> "open"]) @@
    (3 :> [title |-> TitleAdd, body |-> Str(BodyPlain), state |-> "open"])

NoCosts ==
    [claude_api_calls |-> 0, claude_cost_usd |-> 0, cost_saved_usd |-> 0,
     cache_hits |-> 0, cache_misses |-> 0, claude_tokens_cached |-> 0]
\* number of writes the row of today has taken
TrackerWrites(row) == row.cache_hits + row.cache_misses

Procs == 1..MaxProcs
Tasks == 1..MaxTasks
IdleWorker == [pc |-> "idle"]

EmptyTable == [k \in {} |-> None]
NoResponse == [status |-> 0]
HTTPError(code) == [status |-> code]
HTTPOk(body) == [status |-> 200, body |-> body]

NormIdle ==
    /\ normIn = None
    /\ normOut = Pending

SearchIdle ==
    /\ internet_search_cache = EmptyTable
    /\ searchOut = Pending

EndpointIdle ==
    /\ github_issues = StoredIssues
    /\ claude_response_cache = EmptyTable
    /\ now = 0
    /\ api_costs = NoCosts
    /\ pc = "idle"
    /\ request = 0
    /\ cur_issue = None
    /\ cur_repo_url = None
    /\ cur_evidence = None
    /\ cur_web = None
    /\ cur_key = <<>>
    /\ cur_result = None
    /\ response = NoResponse
    /\ calls = <<>>
    /\ ana_out = Pending
    /\ llm_log = EmptyTable
    /\ workers = [p \in Procs |-> IdleWorker]
    /\ last_commit = EmptyTable
    /\ SearchIdle

TrackIdle ==
    /\ tracker_calls = [p \in Procs |-> IdleWorker]
    /\ api_costs_tx = None
    /\ api_costs_before = NoCosts

CostIdle ==
    /\ costIn = None
    /\ costOut = Pending

BatchIdle ==
    /\ batch_triage_status = None
    /\ issue_categories = {}
    /\ batch_tasks = [t \in Tasks |-> IdleWorker]
    /\ batch_poll = Pending

FetchIdle ==
    /\ fetch_args = None
    /\ fetch_pc = "idle"
    /\ batch_num = 0
    /\ total_imported = 0
    /\ limit_reached = FALSE
    /\ fetch_calls = 0
    /\ fetch_out = Pending

RetryIdle ==
    /\ max_retries = 0
    /\ retry_pc = "idle"
    /\ attempt = 0
    /\ retry_log = <<>>
    /\ retry_out = Pending

\* os.getenv("GITHUB_WEBHOOK_SECRET", ""): unset unless the webhook is studied
HookIdle ==
    /\ GITHUB_WEBHOOK_SECRET = ""
    /\ github_prs = EmptyTable
    /\ hook_request = None
    /\ hook_handlers = <<>>
    /\ hook_response = NoResponse

AuxIdle ==
    TrackIdle /\ CostIdle /\ BatchIdle /\ FetchIdle /\ RetryIdle /\ HookIdle

KeysIdle ==
    /\ keyIn = None
    /\ keyOut = Pending

----------------------------------------------------------------------------
(* Inputs of the rule engine *)

MaxEvidence == 2

Titles == {TitleBug, TitleAdd}
Bodies == {None, Str(<<>>), Str(BodyPlain), Str(BodyEnable)}

IssueSims == {900, 950, 951}
DocSims == {600, 800, 801}
CodeSims == {600, 800, 801}

\* the searches return their rows by descending similarity
SortedSims(grid) ==
    {s \in UNION {[1..n -> grid] : n \in 0..MaxEvidence} :
        \A i \in 1..(Len(s) - 1) : s[i] >= s[i + 1]}

MkSimilarIssues(sims) ==
    [i \in 1..Len(sims) |->
        [issue_number |-> 40 + i, state |-> "open", similarity |-> sims[i]]]
MkCodeMatches(sims) ==
    [i \in 1..Len(sims) |->
        [filename |-> "theme.py", start_line |-> 10 * i, end_line |-> 10 * i + 5,
         similarity |-> sims[i]]]
MkDocLinks(sims) ==
    [i \in 1..Len(sims) |->
        [filename |-> "README.md", start_line |-> 10 * i, end_line |-> 10 * i + 5,
         similarity |-> sims[i]]]

RepoUrls == {None, [url |-> "https://github.com/o/r"]}

RuleInputs ==
    [issue : [issue_number : {1}, title : Titles, body : Bodies, state : {"open"}],
     similar_issues : {MkSimilarIssues(s) : s \in SortedSims(IssueSims)},
     code_matches : {MkCodeMatches(s) : s \in SortedSims(CodeSims)},
     doc_links : {MkDocLinks(s) : s \in SortedSims(DocSims)},
     repo_url : RepoUrls]

InitRules ==
    /\ ruleIn \in RuleInputs
    /\ ruleOut = Pending
    /\ KeysIdle
    /\ NormIdle
    /\ github_token = TRUE
    /\ EndpointIdle
    /\ AuxIdle

CallApplySmartRules ==
    /\ ruleOut = Pending
    /\ ruleOut' = apply_smart_rules(ruleIn.issue, ruleIn.similar_issues,
                                    ruleIn.code_matches, ruleIn.doc_links,
                                    ruleIn.repo_url)
    /\ UNCHANGED <<auxVars, ruleIn, keyVars, normVars, poolVars, searchVars, storeVars, localVars, reqVars>>

NextRules == CallApplySmartRules

SpecRules == InitRules /\ [][NextRules]_vars

----------------------------------------------------------------------------
(* api/triage.py: analyze_issue_for_triage, one step per collaborator call *)

IssueNumbers == 1..MaxIssue

\* clock instants: the first day, and the days around the response TTL
TimePoints == {t \in 0..MaxTime : t = 0 \/ t >= RESPONSE_TTL_DAYS - 1}

MkSimilarPrs(sims) ==
    [i \in 1..Len(sims) |->
        [pr_number |-> 70 + i, state |-> "open", similarity |-> sims[i]]]

Ev(si, sp, cm, dl) ==
    [similar_issues |-> MkSimilarIssues(si), similar_prs |-> MkSimilarPrs(sp),
     code_matches |-> MkCodeMatches(cm), doc_links |-> MkDocLinks(dl)]

EndpointEvidence ==
    {Ev(<<>>, <<>>, <<>>, <<>>),
     Ev(<<951>>, <<>>, <<>>, <<>>),
     Ev(<<900>>, <<700>>, <<801>>, <<>>),
     Ev(<<>>, <<>>, <<801>>, <<801>>)}

CacheEvidence ==
    {Ev(<<>>, <<>>, <<>>, <<>>), Ev(<<900>>, <<700>>, <<801>>, <<>>)}

\* what search_stackoverflow / search_github_issues hand back; both swallow
\* their failures into an empty list
WebOutcomes ==
    {[stackoverflow |-> <<>>, github_issues |-> <<>>],
     [stackoverflow |-> <<[url |-> "so/1"]>>, github_issues |-> <<[url |-> "gh/1"]>>]}

LLMObject(d, m) ==
    [decision |-> d,
     primary_message |-> [msg |-> m],
     evidence_bullets |-> [pct |-> 0, msg |-> m],
     draft_response |-> [template |-> m],
     action_button_text |-> [msg |-> m],
     action_button_style |-> "primary",
     related_links |-> <<>>]
WithoutDecision(o) == [k \in DOMAIN o \ {"decision"} |-> o[k]]

LLMObjects ==
    {LLMObject("CLOSE_FIXED", "m1"),
     WithoutDecision(LLMObject("CLOSE_FIXED", "m2")),
     LLMObject("MAYBE", "m3")}
LLMUsages ==
    {[input_tokens |-> 1000, output_tokens |-> 100,
      cache_read_tokens |-> 0, cache_write_tokens |-> 0]}
LLMOutcomes ==
    {[kind |-> "raise"], [kind |-> "text", json |-> "invalid"],
     [kind |-> "text", json |-> "non_object"]}
    \cup {[kind |-> "text", json |-> "object", object |-> o, usage |-> u] :
            o \in LLMObjects, u \in LLMUsages}

Call(op, out) == [op |-> op, out |-> out]

ClearLocals ==
    /\ cur_issue' = None
    /\ cur_repo_url' = None
    /\ cur_evidence' = None
    /\ cur_web' = None
    /\ cur_key' = <<>>
    /\ cur_result' = None

\* the handler returns, or raises HTTPException
Respond(resp) ==
    /\ response' = resp
    /\ pc' = "idle"
    /\ ClearLocals

Receive(n) ==
    /\ pc = "idle"
    /\ TrackerWrites(api_costs) < MaxTracked
    /\ pc' = "embed"
    /\ request' = n
    /\ response' = NoResponse
    /\ calls' = <<>>
    /\ ana_out' = Pending
    /\ UNCHANGED <<benchVars, storeVars, localVars, llm_log>>

\* generate_issue_embedding: False when the row is missing; an exception of
\* the embedding or of the upsert reaches the handler's except: 500
GenerateIssueEmbedding ==
    /\ pc = "embed"
    /\ IF request \notin DOMAIN github_issues
       THEN /\ calls' = Append(calls, Call("embed", "no_row"))
            /\ pc' = "get_issue"
            /\ UNCHANGED <<response, localVars>>
       ELSE \E ok \in BOOLEAN :
            IF ok
            THEN /\ calls' = Append(calls, Call("embed", "ok"))
                 /\ pc' = "get_issue"
                 /\ UNCHANGED <<response, localVars>>
            ELSE /\ calls' = Append(calls, Call("embed", "raise"))
                 /\ Respond(HTTPError(500))
    /\ UNCHANGED <<benchVars, storeVars, request, ana_out, llm_log>>

\* mutant: a missing row is not detected, the handler goes on with an empty issue
GetIssueDetails_no_check ==
    /\ pc = "get_issue"
    /\ calls' = Append(calls, Call("get_issue", "found"))
    /\ cur_issue' = [issue_number |-> request, title |-> <<>>,
                     body |-> Str(<<>>), state |-> "open"]
    /\ pc' = "repo_url"
    /\ UNCHANGED <<response, cur_repo_url, cur_evidence, cur_web, cur_key, cur_result>>
    /\ UNCHANGED <<benchVars, storeVars, request, ana_out, llm_log>>

\* _get_issue_details, and the 404 of lines 466-467
GetIssueDetails ==
    /\ pc = "get_issue"
    /\ IF request \notin DOMAIN github_issues
       THEN /\ calls' = Append(calls, Call("get_issue", "not_found"))
            /\ Respond(HTTPError(404))
       ELSE /\ calls' = Append(calls, Call("get_issue", "found"))
            /\ cur_issue' = [issue_number |-> request,
                             title |-> github_issues[request].title,
                             body |-> github_issues[request].body,
                             state |-> github_issues[request].state]
            /\ pc' = "repo_url"
            /\ UNCHANGED <<response, cur_repo_url, cur_evidence, cur_web,
                           cur_key, cur_result>>
    /\ UNCHANGED <<benchVars, storeVars, request, ana_out, llm_log>>

\* repo_url stays None when the repository row is missing or the query fails
FetchRepoUrl ==
    /\ pc = "repo_url"
    /\ \E u \in RepoUrls : cur_repo_url' = u
    /\ pc' = "search"
    /\ UNCHANGED <<benchVars, storeVars, cur_issue, cur_evidence, cur_web,
                   cur_key, cur_result, request, response, calls, ana_out, llm_log>>

\* search_similar_issues, search_similar_prs, search_in_codebase,
\* _find_relevant_docs: not guarded, an exception reaches the handler's except
RunSimilaritySearches ==
    /\ pc = "search"
    /\ \E ok \in BOOLEAN :
        IF ok
        THEN /\ \E ev \in EndpointEvidence : cur_evidence' = ev
             /\ calls' = Append(calls, Call("search", "ok"))
             /\ pc' = "rules"
             /\ UNCHANGED <<response, cur_issue, cur_repo_url, cur_web,
                            cur_key, cur_result>>
        ELSE /\ calls' = Append(calls, Call("search", "raise"))
             /\ Respond(HTTPError(500))
    /\ UNCHANGED <<benchVars, storeVars, request, ana_out, llm_log>>

\* mutant: a rule's result is ignored and the request goes on to the next tiers
ApplySmartRules_falls_through ==
    /\ pc = "rules"
    /\ LET out == apply_smart_rules(cur_issue, cur_evidence.similar_issues,
                                    cur_evidence.code_matches,
                                    cur_evidence.doc_links, cur_repo_url)
       IN IF out.kind = "raise"
          THEN /\ calls' = Append(calls, Call("rules", "raise"))
               /\ Respond(HTTPError(500))
          ELSE /\ calls' = Append(calls,
                        Call("rules", IF out.value = None THEN "none" ELSE "match"))
               /\ pc' = "web"
               /\ cur_repo_url' = None
               /\ UNCHANGED <<response, cur_issue, cur_evidence, cur_web,
                              cur_key, cur_result>>
    /\ UNCHANGED <<benchVars, storeVars, request, ana_out, llm_log>>

\* lines 508-541; repo_url is not read after this step
ApplySmartRules ==
    /\ pc = "rules"
    /\ LET out == apply_smart_rules(cur_issue, cur_evidence.similar_issues,
                                    cur_evidence.code_matches,
                                    cur_evidence.doc_links, cur_repo_url)
       IN IF out.kind = "raise"
          THEN /\ calls' = Append(calls, Call("rules", "raise"))
               /\ Respond(HTTPError(500))
          ELSE IF out.value = None
          THEN /\ calls' = Append(calls, Call("rules", "none"))
               /\ pc' = "web"
               /\ cur_repo_url' = None
               /\ UNCHANGED <<response, cur_issue, cur_evidence, cur_web,
                              cur_key, cur_result>>
          ELSE /\ calls' = Append(calls, Call("rules", "match"))
               /\ cur_result' = out.value
               /\ pc' = "transform_rule"
               /\ cur_repo_url' = None
               /\ UNCHANGED <<response, cur_issue, cur_evidence, cur_web, cur_key>>
    /\ UNCHANGED <<benchVars, storeVars, request, ana_out, llm_log>>

SearchInternet ==
    /\ pc = "web"
    /\ \E w \in WebOutcomes : cur_web' = w
    /\ calls' = Append(calls, Call("web", "returned"))
    /\ pc' = "cache_key"
    /\ UNCHANGED <<benchVars, storeVars, cur_issue, cur_repo_url,
                   cur_evidence, cur_key, cur_result, request, response,
                   ana_out, llm_log>>

----------------------------------------------------------------------------
(* analyze_with_claude_optimized, step by step *)

\* a direct call of analyze_with_claude_optimized for a stored issue
AnalyzeCall(n, ev) ==
    /\ pc = "idle"
    /\ n \in DOMAIN github_issues
    /\ request' = n
    /\ response' = NoResponse
    /\ calls' = <<>>
    /\ ana_out' = Pending
    /\ cur_issue' = [issue_number |-> n,
                     title |-> github_issues[n].title,
                     body |-> github_issues[n].body,
                     state |-> github_issues[n].state]
    /\ cur_evidence' = ev
    /\ cur_web' = [stackoverflow |-> <<>>, github_issues |-> <<>>]
    /\ pc' = "cache_key"
    /\ UNCHANGED <<benchVars, storeVars, cur_repo_url, cur_key,
                   cur_result, llm_log>>

Tick ==
    /\ pc = "idle"
    /\ \E t \in TimePoints :
        /\ t > now
        /\ \A u \in TimePoints : ~(now < u /\ u < t)
        /\ now' = t
    /\ UNCHANGED <<benchVars, github_issues, claude_response_cache,
                   api_costs, localVars, reqVars>>

\* line 547, outside the try block: the exception leaves the function (and,
\* in the endpoint, reaches the handler's except: 500).  The evidence and the
\* web results only feed the prompt; they are not read after this step.
ComputeCacheKey ==
    /\ pc = "cache_key"
    /\ LET k == _get_cache_key(cur_issue, BuildContext(cur_evidence, cur_web))
       IN IF k.kind = "raise"
          THEN /\ calls' = Append(calls, Call("cache_key", "raise"))
               /\ ana_out' = k
               /\ Respond(HTTPError(500))
          ELSE /\ calls' = Append(calls, Call("cache_key", "ok"))
               /\ cur_key' = k.value
               /\ cur_evidence' = None
               /\ cur_web' = None
               /\ pc' = "cache_get"
               /\ UNCHANGED <<response, cur_issue, cur_repo_url, cur_result, ana_out>>
    /\ UNCHANGED <<benchVars, storeVars, request, llm_log>>

\* lines 548-553
CheckResponseCache ==
    /\ pc = "cache_get"
    /\ \E db_fails \in BOOLEAN :
        LET cached == _check_response_cache(claude_response_cache, cur_key,
                                            now, db_fails)
        IN IF cached # None
           THEN /\ calls' = Append(calls, Call("cache_get", "hit"))
                /\ cur_result' = FromCache(cached)
                /\ ana_out' = Return(FromCache(cached))
                /\ pc' = "transform_ai"
           ELSE /\ calls' = Append(calls,
                        Call("cache_get", IF db_fails THEN "failed" ELSE "miss"))
                /\ pc' = "llm"
                /\ UNCHANGED <<cur_result, ana_out>>
    /\ UNCHANGED <<benchVars, storeVars, cur_issue, cur_repo_url,
                   cur_evidence, cur_web, cur_key, request, response, llm_log>>

\* mutant: the except branch stores the fallback Decision in the cache
CallLLM_caches_fallback ==
    /\ pc = "llm"
    /\ \E llm \in LLMOutcomes :
        LET parsed == ParseLLMResponse(llm)
        IN IF parsed.kind = "raise"
           THEN /\ calls' = Append(calls,
                        [op |-> "llm", out |-> parsed.error, reply |-> llm])
                /\ cur_result' = FallbackDecision(parsed.error)
                /\ ana_out' = Return(FallbackDecision(parsed.error))
                /\ claude_response_cache' =
                      _save_response_cache(claude_response_cache, cur_key,
                                           FallbackDecision(parsed.error), now,
                                           FALSE)
                /\ pc' = "transform_ai"
                /\ UNCHANGED llm_log
           ELSE /\ calls' = Append(calls,
                        [op |-> "llm", out |-> "ok", reply |-> llm])
                /\ cur_result' = parsed.value
                /\ llm_log' = (cur_key :> [result |-> parsed.value, t |-> now,
                                           saved |-> FALSE]) @@ llm_log
                /\ pc' = "cache_put"
                /\ UNCHANGED <<ana_out, claude_response_cache>>
    /\ UNCHANGED <<benchVars, github_issues, now, api_costs, cur_issue,
                   cur_repo_url, cur_evidence, cur_web, cur_key, request,
                   response>>

\* lines 594-690: the call, the parse and the cost fields, under one try
CallLLM ==
    /\ pc = "llm"
    /\ \E llm \in LLMOutcomes :
        LET parsed == ParseLLMResponse(llm)
        IN IF parsed.kind = "raise"
           THEN /\ calls' = Append(calls,
                        [op |-> "llm", out |-> parsed.error, reply |-> llm])
                /\ cur_result' = FallbackDecision(parsed.error)
                /\ ana_out' = Return(FallbackDecision(parsed.error))
                /\ pc' = "transform_ai"
                /\ UNCHANGED llm_log
           ELSE /\ calls' = Append(calls,
                        [op |-> "llm", out |-> "ok", reply |-> llm])
                /\ cur_result' = parsed.value
                /\ llm_log' = (cur_key :> [result |-> parsed.value, t |-> now,
                                           saved |-> FALSE]) @@ llm_log
                /\ pc' = "cache_put"
                /\ UNCHANGED ana_out
    /\ UNCHANGED <<benchVars, storeVars, cur_issue, cur_repo_url,
                   cur_evidence, cur_web, cur_key, request, response>>

\* mutant: a failing save is not caught by the helper and ends in the
\* except branch of the function
SaveResponseCache_failure_reaches_except ==
    /\ pc = "cache_put"
    /\ \E db_fails \in BOOLEAN :
        /\ claude_response_cache' =
              _save_response_cache(claude_response_cache, cur_key, cur_result,
                                   now, db_fails)
        /\ calls' = Append(calls,
                        Call("cache_put", IF db_fails THEN "failed" ELSE "ok"))
        /\ llm_log' = [llm_log EXCEPT ![cur_key].saved = ~db_fails]
        /\ ana_out' = IF db_fails THEN Return(FallbackDecision("OperationalError"))
                      ELSE Return(cur_result)
        /\ cur_result' = IF db_fails THEN FallbackDecision("OperationalError")
                         ELSE cur_result
    /\ pc' = "transform_ai"
    /\ UNCHANGED <<benchVars, github_issues, now, api_costs, cur_issue,
                   cur_repo_url, cur_evidence, cur_web, cur_key, request,
                   response>>

\* lines 675-678
SaveResponseCache ==
    /\ pc = "cache_put"
    /\ \E db_fails \in BOOLEAN :
        /\ claude_response_cache' =
              _save_response_cache(claude_response_cache, cur_key, cur_result,
                                   now, db_fails)
        /\ calls' = Append(calls,
                        Call("cache_put", IF db_fails THEN "failed" ELSE "ok"))
        /\ llm_log' = [llm_log EXCEPT ![cur_key].saved = ~db_fails]
    /\ ana_out' = Return(cur_result)
    /\ pc' = "transform_ai"
    /\ UNCHANGED <<benchVars, github_issues, now, api_costs, localVars,
                   request, response>>

\* the direct caller takes the returned Decision
AnalyzeReturn ==
    /\ pc = "transform_ai"
    /\ Respond(HTTPOk(cur_result))
    /\ UNCHANGED <<benchVars, storeVars, request, calls, ana_out, llm_log>>

----------------------------------------------------------------------------
(* analyze_issue_for_triage, after the tiers *)

TransformResult ==
    /\ pc \in {"transform_rule", "transform_ai"}
    /\ cur_result' = _transform_analysis_result(cur_result)
    /\ pc' = IF pc = "transform_rule" THEN "store_rule" ELSE "store_ai"
    /\ UNCHANGED <<benchVars, storeVars, cur_issue, cur_repo_url,
                   cur_evidence, cur_web, cur_key, request, response, calls,
                   ana_out, llm_log>>

\* _store_triage_results under try/except: a failure is logged and dropped
StoreTriageResults ==
    /\ pc \in {"store_rule", "store_ai"}
    /\ \E ok \in BOOLEAN :
        calls' = Append(calls, Call("store", IF ok THEN "ok" ELSE "failed"))
    /\ pc' = IF pc = "store_rule" THEN "track_rule" ELSE "track_ai"
    /\ UNCHANGED <<benchVars, storeVars, localVars, request, response,
                   ana_out, llm_log>>

\* mutant: every tracked call counts as an LLM call
_track_cost_savings_counts_every_call(row, cost_saved, claude_cost, cache_hit, cached_tokens, db_fails) ==
    IF db_fails THEN row
    ELSE [claude_api_calls |-> row.claude_api_calls + 1,
          claude_cost_usd |-> row.claude_cost_usd + claude_cost,
          cost_saved_usd |-> row.cost_saved_usd + cost_saved,
          cache_hits |-> row.cache_hits + (IF cache_hit THEN 1 ELSE 0),
          cache_misses |-> row.cache_misses + (IF cache_hit THEN 0 ELSE 1),
          claude_tokens_cached |-> row.claude_tokens_cached + cached_tokens]

\* mutant: the conflicting row is overwritten with the new values
_track_cost_savings_overwrites(row, cost_saved, claude_cost, cache_hit, cached_tokens, db_fails) ==
    IF db_fails THEN row
    ELSE [claude_api_calls |-> IF claude_cost > 0 THEN 1 ELSE 0,
          claude_cost_usd |-> claude_cost,
          cost_saved_usd |-> cost_saved,
          cache_hits |-> IF cache_hit THEN 1 ELSE 0,
          cache_misses |-> IF cache_hit THEN 0 ELSE 1,
          claude_tokens_cached |-> cached_tokens]

\* the INSERT ... ON CONFLICT (date) DO UPDATE of _track_cost_savings; a
\* failure is logged and dropped
_track_cost_savings(row, cost_saved, claude_cost, cache_hit, cached_tokens, db_fails) ==
    IF db_fails THEN row
    ELSE [claude_api_calls |-> row.claude_api_calls
                                + (IF claude_cost > 0 THEN 1 ELSE 0),
          claude_cost_usd |-> row.claude_cost_usd + claude_cost,
          cost_saved_usd |-> row.cost_saved_usd + cost_saved,
          cache_hits |-> row.cache_hits + (IF cache_hit THEN 1 ELSE 0),
          cache_misses |-> row.cache_misses + (IF cache_hit THEN 0 ELSE 1),
          claude_tokens_cached |-> row.claude_tokens_cached + cached_tokens]

TrackCall(ok, cost_saved, claude_cost, cache_hit) ==
    [op |-> "track", out |-> IF ok THEN "ok" ELSE "failed",
     cost_saved |-> cost_saved, claude_cost |-> claude_cost,
     cache_hit |-> cache_hit]

\* lines 533-541: _track_cost_savings swallows its own failure
TrackRuleSavings ==
    /\ pc = "track_rule"
    /\ \E ok \in BOOLEAN :
        LET cost_saved == Get(cur_result, "cost_saved", RULE_COST_SAVED)
        IN /\ calls' = Append(calls, TrackCall(ok, cost_saved, 0, FALSE))
           /\ api_costs' = _track_cost_savings(api_costs, cost_saved, 0, FALSE,
                                               0, ~ok)
    /\ Respond(HTTPOk(cur_result))
    /\ UNCHANGED <<benchVars, github_issues, claude_response_cache, now,
                   request, ana_out, llm_log>>

\* lines 587-598
TrackApiCost ==
    /\ pc = "track_ai"
    /\ IF "api_cost" \in DOMAIN cur_result
       THEN \E ok \in BOOLEAN :
            LET claude_cost == Get(cur_result.api_cost, "total_cost_usd", 0)
                cache_hit == Get(cur_result, "from_cache", FALSE)
                cached_tokens == Get(cur_result.api_cost, "cached_tokens", 0)
            IN /\ calls' = Append(calls, TrackCall(ok, 0, claude_cost, cache_hit))
               /\ api_costs' = _track_cost_savings(api_costs, 0, claude_cost,
                                                   cache_hit, cached_tokens, ~ok)
       ELSE UNCHANGED <<calls, api_costs>>
    /\ Respond(HTTPOk(cur_result))
    /\ UNCHANGED <<benchVars, github_issues, claude_response_cache, now,
                   request, ana_out, llm_log>>

Init ==
    /\ ruleIn = None
    /\ ruleOut = Pending
    /\ KeysIdle
    /\ NormIdle
    /\ github_token = TRUE
    /\ EndpointIdle
    /\ AuxIdle

\* the analyze endpoint, request after request
Next ==
    \/ \E n \in IssueNumbers : Receive(n)
    \/ GenerateIssueEmbedding
    \/ GetIssueDetails
    \/ FetchRepoUrl
    \/ RunSimilaritySearches
    \/ ApplySmartRules
    \/ SearchInternet
    \/ ComputeCacheKey
    \/ CheckResponseCache
    \/ CallLLM
    \/ SaveResponseCache
    \/ TransformResult
    \/ StoreTriageResults
    \/ TrackRuleSavings
    \/ TrackApiCost

Spec == Init /\ [][Next]_vars

\* analyze_with_claude_optimized called again and again while time passes
NextCache ==
    \/ \E n \in IssueNumbers, ev \in CacheEvidence : AnalyzeCall(n, ev)
    \/ Tick
    \/ ComputeCacheKey
    \/ CheckResponseCache
    \/ CallLLM
    \/ SaveResponseCache
    \/ AnalyzeReturn

SpecCache == Init /\ [][NextCache]_vars

----------------------------------------------------------------------------
(* Concurrent calls of analyze_with_claude_optimized on one cache table *)

WorkerIssues == {n \in DOMAIN StoredIssues : StoredIssues[n].body # None}

\* a request thread enters the function and computes its key (line 547)
WStart(p, n) ==
    /\ workers[p].pc = "idle"
    /\ LET issue == [issue_number |-> n, title |-> github_issues[n].title,
                     body |-> github_issues[n].body,
                     state |-> github_issues[n].state]
           k == _get_cache_key(issue,
                    BuildContext(Ev(<<>>, <<>>, <<>>, <<>>),
                                 [stackoverflow |-> <<>>, github_issues |-> <<>>]))
       IN workers' = [workers EXCEPT ![p] = [pc |-> "lookup", key |-> k.value]]
    /\ UNCHANGED <<auxVars, ruleVars, keyVars, normVars, searchVars, last_commit, storeVars, localVars, reqVars>>

\* lines 548-553
WCheckCache(p) ==
    /\ workers[p].pc = "lookup"
    /\ \E db_fails \in BOOLEAN :
        LET cached == _check_response_cache(claude_response_cache,
                                            workers[p].key, now, db_fails)
        IN workers' = [workers EXCEPT ![p] =
                IF cached # None
                THEN [pc |-> "done", key |-> workers[p].key,
                      result |-> FromCache(cached), saved |-> FALSE]
                ELSE [pc |-> "llm", key |-> workers[p].key]]
    /\ UNCHANGED <<auxVars, ruleVars, keyVars, normVars, searchVars, last_commit, storeVars, localVars, reqVars>>

\* lines 594-673 and the except branch
WCallLLM(p) ==
    /\ workers[p].pc = "llm"
    /\ \E llm \in LLMOutcomes :
        LET parsed == ParseLLMResponse(llm)
        IN workers' = [workers EXCEPT ![p] =
                IF parsed.kind = "raise"
                THEN [pc |-> "done", key |-> workers[p].key,
                      result |-> FallbackDecision(parsed.error), saved |-> FALSE]
                ELSE [pc |-> "save", key |-> workers[p].key,
                      result |-> parsed.value]]
    /\ UNCHANGED <<auxVars, ruleVars, keyVars, normVars, searchVars, last_commit, storeVars, localVars, reqVars>>

\* lines 675-678: the upsert and its commit are one step of the database
WSaveCache(p) ==
    /\ workers[p].pc = "save"
    /\ \E db_fails \in BOOLEAN :
        /\ claude_response_cache' =
              _save_response_cache(claude_response_cache, workers[p].key,
                                   workers[p].result, now, db_fails)
        /\ last_commit' = IF db_fails THEN last_commit
                          ELSE (workers[p].key :> workers[p].result) @@ last_commit
        /\ workers' = [workers EXCEPT ![p] =
                [pc |-> "done", key |-> workers[p].key,
                 result |-> workers[p].result, saved |-> ~db_fails]]
    /\ UNCHANGED <<auxVars, ruleVars, keyVars, normVars, searchVars, github_issues, now, api_costs,
                   localVars, reqVars>>

NextUpsert ==
    \/ \E p \in Procs, n \in WorkerIssues : WStart(p, n)
    \/ \E p \in Procs : WCheckCache(p)
    \/ \E p \in Procs : WCallLLM(p)
    \/ \E p \in Procs : WSaveCache(p)

SpecUpsert == Init /\ [][NextUpsert]_vars

----------------------------------------------------------------------------
(* Concurrent calls of _track_cost_savings on the row of one day *)

MaxCachedTokens == 800
\* total_cost_usd of the sample usage, in 1e-4 USD
SAMPLE_COST == api_cost(CHOOSE u \in LLMUsages : TRUE).total_cost_usd

\* the arguments the endpoint passes (lines 533-539 and 588-593), and a call
\* that reports cached tokens
TrackArgs ==
    {[cost_saved |-> RULE_COST_SAVED, claude_cost |-> 0, cache_hit |-> FALSE,
      cached_tokens |-> 0],
     [cost_saved |-> 0, claude_cost |-> SAMPLE_COST, cache_hit |-> FALSE,
      cached_tokens |-> MaxCachedTokens],
     [cost_saved |-> 0, claude_cost |-> SAMPLE_COST, cache_hit |-> TRUE,
      cached_tokens |-> 0]}

\* today's row before the calls: absent (the first call creates it) or there
RowsBefore ==
    {NoCosts,
     [claude_api_calls |-> 2, claude_cost_usd |-> 2 * SAMPLE_COST,
      cost_saved_usd |-> RULE_COST_SAVED, cache_hits |-> 1, cache_misses |-> 2,
      claude_tokens_cached |-> MaxCachedTokens]}

InitTrack ==
    /\ ruleIn = None
    /\ ruleOut = Pending
    /\ KeysIdle
    /\ NormIdle
    /\ github_token = TRUE
    /\ github_issues = StoredIssues
    /\ claude_response_cache = EmptyTable
    /\ now = 0
    /\ api_costs \in RowsBefore
    /\ api_costs_before = api_costs
    /\ api_costs_tx = None
    /\ tracker_calls = [p \in Procs |-> IdleWorker]
    /\ pc = "idle"
    /\ request = 0
    /\ cur_issue = None
    /\ cur_repo_url = None
    /\ cur_evidence = None
    /\ cur_web = None
    /\ cur_key = <<>>
    /\ cur_result = None
    /\ response = NoResponse
    /\ calls = <<>>
    /\ ana_out = Pending
    /\ llm_log = EmptyTable
    /\ workers = [p \in Procs |-> IdleWorker]
    /\ last_commit = EmptyTable
    /\ SearchIdle
    /\ CostIdle
    /\ BatchIdle
    /\ FetchIdle
    /\ RetryIdle
    /\ HookIdle

TrackUnchanged ==
    UNCHANGED <<oldBench, exceptTrack, github_issues, claude_response_cache,
                now, api_costs_before, localVars, reqVars>>

\* lines 709-713: the call is entered, the connection opened
TConnect(p, args) ==
    /\ tracker_calls[p].pc = "idle"
    /\ \E ok \in BOOLEAN :
        tracker_calls' = [tracker_calls EXCEPT ![p] =
            IF ok THEN [pc |-> "execute", args |-> args]
            ELSE [pc |-> "done", args |-> args, committed |-> FALSE]]
    /\ UNCHANGED <<api_costs, api_costs_tx>>
    /\ TrackUnchanged

\* lines 715-743: the statement takes the lock of the day's row (it waits
\* while another transaction holds it) and adds to the committed version
TExecute(p) ==
    /\ tracker_calls[p].pc = "execute"
    /\ api_costs_tx = None
    /\ LET a == tracker_calls[p].args
       IN api_costs_tx' =
            [by |-> p,
             row |-> _track_cost_savings(api_costs, a.cost_saved, a.claude_cost,
                                         a.cache_hit, a.cached_tokens, FALSE)]
    /\ tracker_calls' = [tracker_calls EXCEPT ![p].pc = "commit"]
    /\ UNCHANGED api_costs
    /\ TrackUnchanged

\* line 745: the commit publishes the row; a failing commit is logged
\* (line 750) and the transaction is rolled back with its connection
TCommit(p) ==
    /\ tracker_calls[p].pc = "commit"
    /\ api_costs_tx # None
    /\ api_costs_tx.by = p
    /\ \E ok \in BOOLEAN :
        /\ api_costs' = IF ok THEN api_costs_tx.row ELSE api_costs
        /\ tracker_calls' = [tracker_calls EXCEPT ![p] =
                [pc |-> "done", args |-> tracker_calls[p].args,
                 committed |-> ok]]
    /\ api_costs_tx' = None
    /\ TrackUnchanged

NextTrack ==
    \/ \E p \in Procs, args \in TrackArgs : TConnect(p, args)
    \/ \E p \in Procs : TExecute(p)
    \/ \E p \in Procs : TCommit(p)

SpecTrack == InitTrack /\ [][NextTrack]_vars

----------------------------------------------------------------------------
(* The cost fields computed from the usage report of an LLM reply *)

\* every variable but those of the function-level specifications below
ProgramIdle ==
    /\ ruleIn = None
    /\ ruleOut = Pending
    /\ KeysIdle
    /\ NormIdle
    /\ github_token = TRUE
    /\ EndpointIdle

TOKEN_STEP == 1000
MaxTokenSteps == 2
TokenCounts == {k * TOKEN_STEP : k \in 0..MaxTokenSteps}
\* message.usage: four non-negative token counts
UsageReports ==
    [input_tokens : TokenCounts, output_tokens : TokenCounts,
     cache_read_tokens : TokenCounts, cache_write_tokens : TokenCounts]

InitCost ==
    /\ ProgramIdle
    /\ TrackIdle
    /\ BatchIdle
    /\ FetchIdle
    /\ RetryIdle
    /\ HookIdle
    /\ costIn \in UsageReports
    /\ costOut = Pending

\* lines 638-670
ComputeApiCost ==
    /\ costOut = Pending
    /\ costOut' = Return(api_cost(costIn))
    /\ UNCHANGED <<oldBench, exceptCost, costIn, storeVars, localVars, reqVars>>

NextCost == ComputeApiCost

SpecCost == InitCost /\ [][NextCost]_vars

----------------------------------------------------------------------------
(* api/triage.py: batch triage in the background and its status record *)

RECURSIVE SortedList(_)
\* ORDER BY gi.issue_number
SortedList(S) ==
    IF S = {} THEN <<>>
    ELSE LET m == CHOOSE x \in S : \A y \in S : x <= y
         IN <<m>> \o SortedList(S \ {m})

\* open issues without a triage category (the SELECTs of lines 72-83, 786-797)
Uncategorized ==
    {n \in DOMAIN github_issues :
        github_issues[n].state = "open" /\ n \notin issue_categories}

\* lines 92-99; start_time is left out
RunningStatus(total) ==
    [status |-> "running", total |-> total, processed |-> 0,
     current_issue |-> None, errors |-> <<>>]
\* lines 136-143
FailedStatus ==
    [status |-> "failed", total |-> 0, processed |-> 0, current_issue |-> None,
     errors |-> <<[error |-> "batch_triage_failed"]>>]
\* lines 847-855
NotStarted ==
    [status |-> "not_started", total |-> 0, processed |-> 0,
     current_issue |-> None, errors |-> <<>>]

Active(t) == batch_tasks[t].pc \notin {"idle", "done"}
BatchUnchanged ==
    UNCHANGED <<oldBench, exceptBatch, storeVars, localVars, reqVars>>

\* POST /batch-triage, lines 754-827: nothing but the count of
\* uncategorized issues decides whether a background task is added
BatchTriageIssues(t) ==
    /\ batch_tasks[t].pc = "idle"
    /\ \A u \in 1..(t - 1) : batch_tasks[u].pc # "idle"
    /\ \E db_ok \in BOOLEAN :
        batch_tasks' = [batch_tasks EXCEPT ![t] =
            IF db_ok /\ Cardinality(Uncategorized) # 0
            THEN [pc |-> "queued", issue_numbers |-> <<>>, i |-> 0,
                  open |-> {}, raised |-> {}, no_result |-> {}]
            ELSE [pc |-> "done", issue_numbers |-> <<>>, i |-> 0,
                  open |-> {}, raised |-> {}, no_result |-> {},
                  outcome |-> "not_started"]]
    /\ UNCHANGED <<batch_triage_status, issue_categories, batch_poll>>
    /\ BatchUnchanged

\* lines 68-87 and the outer except (lines 126-143)
TaskSelect(t) ==
    /\ batch_tasks[t].pc = "queued"
    /\ \E db_ok \in BOOLEAN :
        IF db_ok
        THEN /\ batch_tasks' = [batch_tasks EXCEPT
                    ![t].pc = "init",
                    ![t].issue_numbers = SortedList(Uncategorized)]
             /\ UNCHANGED batch_triage_status
        ELSE /\ batch_tasks' = [batch_tasks EXCEPT ![t] =
                    [pc |-> "done", issue_numbers |-> <<>>, i |-> 0,
                     open |-> {}, raised |-> {}, no_result |-> {},
                     outcome |-> "failed"]]
             /\ batch_triage_status' =
                    IF batch_triage_status # None
                    THEN [batch_triage_status EXCEPT
                            !.status = "failed",
                            !.errors = Append(@, [error |-> "batch_triage_failed"])]
                    ELSE FailedStatus
    /\ UNCHANGED <<issue_categories, batch_poll>>
    /\ BatchUnchanged

\* lines 92-99
TaskInit(t) ==
    /\ batch_tasks[t].pc = "init"
    /\ batch_triage_status' = RunningStatus(Len(batch_tasks[t].issue_numbers))
    /\ batch_tasks' = [batch_tasks EXCEPT ![t].pc = "loop", ![t].i = 1]
    /\ UNCHANGED <<issue_categories, batch_poll>>
    /\ BatchUnchanged

\* lines 102-105, and line 123 once the loop is over
TaskNext(t) ==
    /\ batch_tasks[t].pc = "loop"
    /\ IF batch_tasks[t].i <= Len(batch_tasks[t].issue_numbers)
       THEN /\ batch_triage_status' = [batch_triage_status EXCEPT
                    !.current_issue = batch_tasks[t].issue_numbers[batch_tasks[t].i]]
            /\ batch_tasks' = [batch_tasks EXCEPT ![t].pc = "call"]
       ELSE /\ batch_triage_status' = [batch_triage_status EXCEPT
                    !.status = "completed"]
            /\ batch_tasks' = [batch_tasks EXCEPT ![t].pc = "clear"]
    /\ UNCHANGED <<issue_categories, batch_poll>>
    /\ BatchUnchanged

\* line 108: categorization_service.triage_issue is entered
TaskCall(t) ==
    /\ batch_tasks[t].pc = "call"
    /\ batch_tasks' = [batch_tasks EXCEPT
            ![t].pc = "triaging",
            ![t].open = @ \cup {batch_tasks[t].issue_numbers[batch_tasks[t].i]}]
    /\ UNCHANGED <<batch_triage_status, issue_categories, batch_poll>>
    /\ BatchUnchanged

\* what triage_issue (categorization.py lines 960-1063) does: it stores the
\* triage and returns it, it returns {"error": ...} without storing (issue
\* not found, no API key, LLM failure), or it raises
TriageOutcomes == {"stored", "error_dict", "raised"}

TaskTriage(t) ==
    /\ batch_tasks[t].pc = "triaging"
    /\ LET n == batch_tasks[t].issue_numbers[batch_tasks[t].i]
       IN \E outcome \in TriageOutcomes :
            /\ issue_categories' = IF outcome = "stored"
                                   THEN issue_categories \cup {n}
                                   ELSE issue_categories
            /\ batch_tasks' = [batch_tasks EXCEPT
                    ![t].pc = IF outcome = "raised" THEN "except" ELSE "count",
                    ![t].open = @ \ {n},
                    ![t].raised = IF outcome = "raised" THEN @ \cup {n} ELSE @,
                    ![t].no_result = IF outcome = "error_dict"
                                     THEN @ \cup {n} ELSE @]
    /\ UNCHANGED <<batch_triage_status, batch_poll>>
    /\ BatchUnchanged

\* line 111: processed = i
TaskCount(t) ==
    /\ batch_tasks[t].pc = "count"
    /\ batch_triage_status' = [batch_triage_status EXCEPT
            !.processed = batch_tasks[t].i]
    /\ batch_tasks' = [batch_tasks EXCEPT ![t].pc = "loop", ![t].i = @ + 1]
    /\ UNCHANGED <<issue_categories, batch_poll>>
    /\ BatchUnchanged

\* lines 113-118
TaskExcept(t) ==
    /\ batch_tasks[t].pc = "except"
    /\ batch_triage_status' = [batch_triage_status EXCEPT
            !.errors = Append(@,
                [issue_number |-> batch_tasks[t].issue_numbers[batch_tasks[t].i],
                 error |-> "triage_error"])]
    /\ batch_tasks' = [batch_tasks EXCEPT ![t].pc = "loop", ![t].i = @ + 1]
    /\ UNCHANGED <<issue_categories, batch_poll>>
    /\ BatchUnchanged

\* line 124
TaskClear(t) ==
    /\ batch_tasks[t].pc = "clear"
    /\ batch_triage_status' = [batch_triage_status EXCEPT
            !.current_issue = None]
    /\ batch_tasks' = [batch_tasks EXCEPT ![t] =
            [pc |-> "done", issue_numbers |-> batch_tasks[t].issue_numbers,
             i |-> batch_tasks[t].i, open |-> batch_tasks[t].open,
             raised |-> batch_tasks[t].raised,
             no_result |-> batch_tasks[t].no_result,
             outcome |-> "completed"]]
    /\ UNCHANGED <<issue_categories, batch_poll>>
    /\ BatchUnchanged

\* GET /batch-status, lines 830-857
GetBatchTriageStatus ==
    /\ batch_poll' =
            [seen |-> IF batch_triage_status = None THEN NotStarted
                      ELSE batch_triage_status,
             triaging |-> {[task |-> t,
                            issue |-> batch_tasks[t].issue_numbers[batch_tasks[t].i]] :
                           t \in {u \in Tasks : batch_tasks[u].pc = "triaging"}}]
    /\ UNCHANGED <<batch_triage_status, issue_categories, batch_tasks>>
    /\ BatchUnchanged

NextBatch ==
    \/ \E t \in Tasks : BatchTriageIssues(t)
    \/ \E t \in Tasks : TaskSelect(t)
    \/ \E t \in Tasks : TaskInit(t)
    \/ \E t \in Tasks : TaskNext(t)
    \/ \E t \in Tasks : TaskCall(t)
    \/ \E t \in Tasks : TaskTriage(t)
    \/ \E t \in Tasks : TaskCount(t)
    \/ \E t \in Tasks : TaskExcept(t)
    \/ \E t \in Tasks : TaskClear(t)
    \/ GetBatchTriageStatus

\* two open issues wait for their triage, the third one is closed
InitBatch ==
    /\ ruleIn = None
    /\ ruleOut = Pending
    /\ KeysIdle
    /\ NormIdle
    /\ github_token = TRUE
    /\ github_issues = [StoredIssues EXCEPT ![3].state = "closed"]
    /\ claude_response_cache = EmptyTable
    /\ now = 0
    /\ api_costs = NoCosts
    /\ pc = "idle"
    /\ request = 0
    /\ cur_issue = None
    /\ cur_repo_url = None
    /\ cur_evidence = None
    /\ cur_web = None
    /\ cur_key = <<>>
    /\ cur_result = None
    /\ response = NoResponse
    /\ calls = <<>>
    /\ ana_out = Pending
    /\ llm_log = EmptyTable
    /\ workers = [p \in Procs |-> IdleWorker]
    /\ last_commit = EmptyTable
    /\ SearchIdle
    /\ AuxIdle

SpecBatch == InitBatch /\ [][NextBatch]_vars

----------------------------------------------------------------------------
(* services/github/background_jobs.py: fetch_with_batches *)

MAX_BATCHES_PER_PHASE == 10
ERROR_BATCH_LIMIT == 100
MaxBatchSize == 2           \* batch_size of the calls
MaxSkipFirst == 1
MaxEstimate == 5            \* total_estimate a fetch reports

\* the arguments: max_batches is the default, a smaller one, or none at all
FetchArgs ==
    [batch_size : {MaxBatchSize}, skip_first : {0, MaxSkipFirst},
     max_batches : {0, 2, MAX_BATCHES_PER_PHASE}]

\* what fetch_func hands back: a dict of one of the three statuses (a
\* success with or without total_estimate), or it raises
FetchCounts ==
    [status : {"success"}, imported : {0, MaxBatchSize}, updated : {0, 1},
     fetched : {MaxBatchSize - 1, MaxBatchSize}]
FetchResults ==
    {[status |-> "rate_limited", imported |-> i, updated |-> 0] :
        i \in {0, MaxBatchSize}}
    \cup {[status |-> "error"]}
    \cup FetchCounts
    \cup {Set(r, "total_estimate", MaxEstimate) : r \in FetchCounts}
FetchOutcomes == {Return(r) : r \in FetchResults} \cup {Raise("GithubException")}

Max(a, b) == IF a >= b THEN a ELSE b

\* mutant: the error paths go on without counting the batch
AfterException_same_batch(b, total) ==
    [batch_num |-> b, total_imported |-> total, next |-> "loop"]

\* lines 381-390 (and 323-331): the batch is counted, the loop goes on
\* unless more than 100 batches were counted
AfterException(b, total) ==
    [batch_num |-> b + 1, total_imported |-> total,
     next |-> IF b + 1 > ERROR_BATCH_LIMIT THEN "break" ELSE "loop"]

\* lines 284-390: one pass of the try block, from the result of fetch_func
\* to the end of the loop body; progress_ok tells whether
\* update_job_progress went through
AfterFetch(args, b, total, outcome, progress_ok) ==
    IF outcome.kind = "raise" THEN AfterException(b, total)
    ELSE
    LET result == outcome.value
        changed == Get(result, "imported", 0) + Get(result, "updated", 0)
        total1 == total + changed
    IN IF result.status = "rate_limited"
       THEN IF changed > 0 /\ ~progress_ok
            THEN AfterException(b, total1)
            ELSE [batch_num |-> b, total_imported |-> total1,
                  next |-> "return_rate_limited"]
       ELSE IF result.status = "error"
       THEN AfterException(b, total)
       ELSE IF ~progress_ok
       THEN AfterException(b, total1)
       ELSE
       LET github_total == result.total_estimate
           items_already_fetched == Min(args.skip_first, github_total)
           items_still_needed == Max(0, github_total - items_already_fetched)
       IN IF "total_estimate" \in DOMAIN result
             /\ total1 >= items_still_needed
          THEN [batch_num |-> b, total_imported |-> total1, next |-> "break"]
          ELSE IF changed = 0
          THEN [batch_num |-> b + 1, total_imported |-> total1,
                next |-> "break"]
          ELSE [batch_num |-> b + 1, total_imported |-> total1,
                next |-> IF Get(result, "fetched", 0) < args.batch_size
                         THEN "break" ELSE "loop"]

CompletedResult(total, reached) ==
    [status |-> "completed", total_imported |-> total, limit_reached |-> reached]

FetchUnchanged ==
    UNCHANGED <<oldBench, exceptFetch, storeVars, localVars, reqVars>>

\* lines 228-257
FetchWithBatches(args) ==
    /\ fetch_pc = "idle"
    /\ fetch_args' = args
    /\ fetch_pc' = "head"
    /\ UNCHANGED <<batch_num, total_imported, limit_reached, fetch_calls,
                   fetch_out>>
    /\ FetchUnchanged

\* lines 259-281: the batch limit, then the rate-limit check and its sleep;
\* check_rate_limit reports enough calls, too few, or fewer than 100
RateChecks == {"sufficient", "insufficient", "critical"}

FetchCheck ==
    /\ fetch_pc = "head"
    /\ IF batch_num >= fetch_args.max_batches
       THEN /\ limit_reached' = TRUE
            /\ fetch_out' = Return(CompletedResult(total_imported, TRUE))
            /\ fetch_pc' = "done"
       ELSE /\ \E rate_check \in RateChecks : fetch_pc' = "fetch"
            /\ UNCHANGED <<limit_reached, fetch_out>>
    /\ UNCHANGED <<fetch_args, batch_num, total_imported, fetch_calls>>
    /\ FetchUnchanged

\* lines 284-396
FetchBatch ==
    /\ fetch_pc = "fetch"
    /\ fetch_calls' = fetch_calls + 1
    /\ \E outcome \in FetchOutcomes, progress_ok \in BOOLEAN :
        LET after == AfterFetch(fetch_args, batch_num, total_imported,
                                outcome, progress_ok)
        IN /\ batch_num' = after.batch_num
           /\ total_imported' = after.total_imported
           /\ fetch_pc' = IF after.next = "loop" THEN "head" ELSE "done"
           /\ fetch_out' =
                CASE after.next = "loop" -> fetch_out
                  [] after.next = "break" ->
                        Return(CompletedResult(after.total_imported, limit_reached))
                  [] after.next = "return_rate_limited" ->
                        Return([status |-> "rate_limited",
                                total_imported |-> after.total_imported])
    /\ UNCHANGED <<fetch_args, limit_reached>>
    /\ FetchUnchanged

NextFetch ==
    \/ \E args \in FetchArgs : FetchWithBatches(args)
    \/ FetchCheck
    \/ FetchBatch

\* the event loop resumes the coroutine after each of its bounded sleeps
SpecFetch ==
    Init /\ [][NextFetch]_vars /\ WF_vars(FetchCheck) /\ WF_vars(FetchBatch)

----------------------------------------------------------------------------
(* services/github/api.py: retry_with_exponential_backoff *)

DEFAULT_MAX_RETRIES == 3
BASE_DELAY == 1
MAX_DELAY == 60
EXPONENTIAL_BASE == 2
RETRYABLE_STATUS == {502, 503, 504}

RECURSIVE Power(_, _)
Power(b, n) == IF n = 0 THEN 1 ELSE b * Power(b, n - 1)
\* min(base_delay * (exponential_base ** attempt), max_delay)
Backoff(a) == Min(BASE_DELAY * Power(EXPONENTIAL_BASE, a), MAX_DELAY)

\* seconds until the reset a rate-limit error reports; 0 when it reports none
ResetIn == {0, 30, 90}
\* what the wrapped function does: it returns, or it raises a rate-limit
\* error, another GitHub error with its status, or some other exception
FuncOutcomes ==
    {Return("value"), Raise("ValueError")}
    \cup {[kind |-> "raise", error |-> "RateLimitExceededException",
           status |-> 403, reset_in |-> r] : r \in ResetIn}
    \cup {[kind |-> "raise", error |-> "GithubException", status |-> c] :
            c \in RETRYABLE_STATUS \cup {404, 500}}

\* mutant: every GitHub error is retried
AfterAttempt_any_status(k, a, outcome) ==
    IF outcome.kind = "return" THEN [next |-> "return", wait |-> 0]
    ELSE IF outcome.error = "RateLimitExceededException"
    THEN IF a = k THEN [next |-> "raise", wait |-> 0]
         ELSE [next |-> "retry",
               wait |-> IF outcome.reset_in > 0
                        THEN Min(outcome.reset_in, MAX_DELAY)
                        ELSE Backoff(a)]
    ELSE IF outcome.error = "GithubException"
    THEN IF a = k THEN [next |-> "raise", wait |-> 0]
         ELSE [next |-> "retry", wait |-> Backoff(a)]
    ELSE [next |-> "raise", wait |-> 0]

\* lines 57-119: what the wrapper does with the outcome of attempt a
AfterAttempt(k, a, outcome) ==
    IF outcome.kind = "return" THEN [next |-> "return", wait |-> 0]
    ELSE IF outcome.error = "RateLimitExceededException"
    THEN IF a = k THEN [next |-> "raise", wait |-> 0]
         ELSE [next |-> "retry",
               wait |-> IF outcome.reset_in > 0
                        THEN Min(outcome.reset_in, MAX_DELAY)
                        ELSE Backoff(a)]
    ELSE IF outcome.error = "GithubException"
    THEN IF a = k THEN [next |-> "raise", wait |-> 0]
         ELSE IF outcome.status \in RETRYABLE_STATUS
         THEN [next |-> "retry", wait |-> Backoff(a)]
         ELSE [next |-> "raise", wait |-> 0]
    ELSE [next |-> "raise", wait |-> 0]

RetryUnchanged ==
    UNCHANGED <<oldBench, exceptRetry, storeVars, localVars, reqVars>>

\* lines 53-56: the wrapper is called; range(max_retries + 1) may be empty
CallWrapped(k) ==
    /\ retry_pc = "idle"
    /\ max_retries' = k
    /\ attempt' = 0
    /\ retry_log' = <<>>
    /\ IF k + 1 <= 0
       THEN retry_pc' = "done" /\ retry_out' = Return(None)
       ELSE retry_pc' = "attempt" /\ retry_out' = Pending
    /\ RetryUnchanged

\* lines 56-119: one pass of the loop
Attempt ==
    /\ retry_pc = "attempt"
    /\ \E outcome \in FuncOutcomes :
        LET after == AfterAttempt(max_retries, attempt, outcome)
        IN /\ retry_log' = Append(retry_log,
                                  [outcome |-> outcome, wait |-> after.wait])
           /\ IF after.next = "retry"
              THEN /\ attempt' = attempt + 1
                   /\ UNCHANGED <<retry_pc, retry_out>>
              ELSE /\ retry_pc' = "done"
                   /\ retry_out' = outcome
                   /\ UNCHANGED attempt
    /\ UNCHANGED max_retries
    /\ RetryUnchanged

NextRetry ==
    \/ \E k \in {-1, 0, 1, DEFAULT_MAX_RETRIES} : CallWrapped(k)
    \/ Attempt

SpecRetry == Init /\ [][NextRetry]_vars

----------------------------------------------------------------------------
(* api/webhooks.py: POST /api/webhooks/github *)

MAX_PAYLOAD_SIZE == 1024 * 1024
\* the values GITHUB_WEBHOOK_SECRET takes: unset ("") or configured
Secrets == {"", "s3cret"}
\* the keys a sender may sign with
SigningKeys == Secrets \cup {"guess"}
\* table repositories: the one indexed project
IndexedRepositories == {"owner/repo"}
\* a character compare_digest refuses in a str
NonAscii == "<non-ascii>"

\* hmac.new(key, msg, sha256).hexdigest(): a different digest for every
\* different (key, msg)
Hexdigest(key, msg) == "hmac(" \o key \o "," \o msg \o ")"

IssuePayload(action, issue, repo) ==
    [action |-> action, issue |-> issue, repository |-> [full_name |-> repo]]
PullRequestPayload(action, pr, repo) ==
    [action |-> action, pull_request |-> pr, repository |-> [full_name |-> repo]]
JsonList == [py_list |-> TRUE]

\* request bodies: text stands for the bytes, payload for what they parse to
IssueBodies ==
    {[text |-> "open-new", size |-> 100,
      payload |-> IssuePayload("opened",
                     [number |-> MaxIssue, title |-> TitleBug,
                      body |-> Str(BodyPlain), state |-> "open"], "owner/repo")],
     [text |-> "edit-1", size |-> 100,
      payload |-> IssuePayload("edited",
                     [number |-> 1, title |-> TitleAdd, state |-> "open"],
                     "owner/repo")],
     [text |-> "close-1", size |-> 100,
      payload |-> IssuePayload("closed",
                     [number |-> 1, title |-> TitleBug, state |-> "closed"],
                     "owner/repo")],
     [text |-> "open-elsewhere", size |-> 100,
      payload |-> IssuePayload("opened",
                     [number |-> 1, title |-> TitleAdd, state |-> "open"],
                     "other/repo")],
     [text |-> "open-unnumbered", size |-> 100,
      payload |-> IssuePayload("opened", [title |-> TitleAdd], "owner/repo")],
     [text |-> "huge", size |-> MAX_PAYLOAD_SIZE + 1,
      payload |-> IssuePayload("closed",
                     [number |-> 1, title |-> TitleBug, state |-> "closed"],
                     "owner/repo")]}
PullRequestBodies ==
    {[text |-> "pr-open-1", size |-> 100,
      payload |-> PullRequestPayload("opened",
                     [number |-> 1, title |-> TitleAdd, state |-> "open"],
                     "owner/repo")],
     [text |-> "pr-merge-1", size |-> 100,
      payload |-> PullRequestPayload("closed",
                     [number |-> 1, title |-> TitleAdd, state |-> "closed",
                      merged_at |-> Str(<<"d","1">>)], "owner/repo")]}

HookEvents == {"issues", "pull_request", "ping", "push"}
\* the bodies delivered under each X-GitHub-Event; an issues delivery may
\* also carry a JSON list or no JSON at all
HookBodies(event) ==
    CASE event = "issues" ->
            IssueBodies
            \cup {[text |-> "list", size |-> 100, payload |-> JsonList],
                  [text |-> "not-json", size |-> 100]}
      [] event = "pull_request" ->
            PullRequestBodies \cup {b \in IssueBodies : b.text = "open-new"}
      [] event = "ping" ->
            {[text |-> "ping", size |-> 100, payload |-> [zen |-> "keep it simple"]]}
      [] OTHER ->
            {[text |-> "push", size |-> 100, payload |-> [ref |-> "refs/heads/main"]]}

\* values of X-Hub-Signature-256 sent along with a body, as the characters
\* around each "=": empty, without "=", a non-ASCII digest, the digest of
\* another body, another algorithm, a trailing "=", a digest under some key
SignatureHeaders(body) ==
    {Str(<<>>), Str(<<"garbage">>), Str(<<"sha256", "=", NonAscii>>),
     Str(<<"sha256", "=", Hexdigest("s3cret", "replayed")>>),
     Str(<<"sha1", "=", Hexdigest("s3cret", body.text)>>),
     Str(<<"sha256", "=", Hexdigest("s3cret", body.text), "=">>)}
    \cup {Str(<<"sha256", "=", Hexdigest(k, body.text)>>) : k \in SigningKeys}

\* the requests: with or without the X-Hub-Signature-256 header
HookRequests ==
    UNION {{[x_github_event |-> e, body |-> b] : b \in HookBodies(e)} :
            e \in HookEvents}
    \cup UNION {UNION {{[x_github_event |-> e, body |-> b,
                         x_hub_signature_256 |-> h] : h \in SignatureHeaders(b)} :
                       b \in HookBodies(e)} : e \in HookEvents}

\* str.split('=')
RECURSIVE Split(_)
Split(s) ==
    IF \A i \in 1..Len(s) : s[i] # "=" THEN <<s>>
    ELSE LET i == CHOOSE j \in 1..Len(s) :
                    s[j] = "=" /\ \A k \in 1..(j - 1) : s[k] # "="
         IN <<SubSeq(s, 1, i - 1)>> \o Split(SubSeq(s, i + 1, Len(s)))

\* mutant: an unset secret lets every request through
verify_github_signature_open_when_unset(secret, payload_body, signature_header) ==
    IF secret = "" THEN Return(TRUE)
    ELSE IF signature_header \in {None, Str(<<>>)} THEN Return(FALSE)
    ELSE LET parts == Split(signature_header.str)
         IN IF Len(parts) # 2 THEN Raise("ValueError")
            ELSE IF parts[1] # <<"sha256">> THEN Return(FALSE)
            ELSE IF \E i \in 1..Len(parts[2]) : parts[2][i] = NonAscii
            THEN Raise("TypeError")
            ELSE Return(parts[2] = <<Hexdigest(secret, payload_body.text)>>)

\* lines 28-62
verify_github_signature(secret, payload_body, signature_header) ==
    IF secret = "" THEN Return(FALSE)
    ELSE IF signature_header \in {None, Str(<<>>)} THEN Return(FALSE)
    ELSE LET parts == Split(signature_header.str)
         IN IF Len(parts) # 2 THEN Raise("ValueError")
            ELSE IF parts[1] # <<"sha256">> THEN Return(FALSE)
            ELSE IF \E i \in 1..Len(parts[2]) : parts[2][i] = NonAscii
            THEN Raise("TypeError")
            ELSE Return(parts[2] = <<Hexdigest(secret, payload_body.text)>>)

\* lines 92-182: the answer and github_issues afterwards
handle_issue_event(event_action, payload, table, db_ok) ==
    LET issue == Get(payload, "issue", <<>>)
        repository == Get(payload, "repository", <<>>)
        issue_number == Get(issue, "number", None)
        project_id == Get(repository, "full_name", None)
        row == [title |-> Get(issue, "title", <<>>),
                body |-> Get(issue, "body", Str(<<>>)),
                state |-> Get(issue, "state", "open")]
    IN IF "number" \notin DOMAIN issue \/ "full_name" \notin DOMAIN repository
          \/ ~db_ok
       THEN [response |-> HTTPError(500), table |-> table]
       ELSE IF project_id \notin IndexedRepositories
       THEN [response |-> HTTPOk([status |-> "ignored"]), table |-> table]
       ELSE [response |-> HTTPOk([status |-> "success"]),
             table |->
                IF event_action \in {"opened", "reopened", "edited"}
                THEN (issue_number :> row) @@ table
                ELSE IF event_action = "closed" /\ issue_number \in DOMAIN table
                THEN [table EXCEPT ![issue_number].state = "closed"]
                ELSE table]

\* lines 185-276: the answer and github_prs afterwards
handle_pull_request_event(event_action, payload, table, db_ok) ==
    LET pull_request == Get(payload, "pull_request", <<>>)
        repository == Get(payload, "repository", <<>>)
        pr_number == Get(pull_request, "number", None)
        project_id == Get(repository, "full_name", None)
        merged_at == Get(pull_request, "merged_at", None)
        row == [title |-> Get(pull_request, "title", <<>>),
                state |-> Get(pull_request, "state", "open"),
                merged_at |-> merged_at]
    IN IF "number" \notin DOMAIN pull_request
          \/ "full_name" \notin DOMAIN repository \/ ~db_ok
       THEN [response |-> HTTPError(500), table |-> table]
       ELSE IF project_id \notin IndexedRepositories
       THEN [response |-> HTTPOk([status |-> "ignored"]), table |-> table]
       ELSE [response |-> HTTPOk([status |-> "success"]),
             table |->
                IF event_action \in {"opened", "reopened", "edited", "synchronize"}
                THEN (pr_number :> row) @@ table
                ELSE IF event_action = "closed" /\ pr_number \in DOMAIN table
                THEN [table EXCEPT
                        ![pr_number].state =
                            IF merged_at # None THEN "merged" ELSE "closed",
                        ![pr_number].merged_at = merged_at]
                ELSE table]

HookUnchanged ==
    UNCHANGED <<oldBench, exceptHook, claude_response_cache, now, api_costs,
                localVars, reqVars>>

\* lines 279-343: one request, from its body to its answer
github_webhook(req, db_ok) ==
    LET body == req.body
        verified == verify_github_signature(GITHUB_WEBHOOK_SECRET, body,
                        Get(req, "x_hub_signature_256", None))
        Reject(code) ==
            /\ hook_response' = HTTPError(code)
            /\ hook_handlers' = <<>>
            /\ UNCHANGED <<github_issues, github_prs>>
    IN /\ hook_request' = req
       /\ UNCHANGED GITHUB_WEBHOOK_SECRET
       /\ HookUnchanged
       /\ IF body.size > MAX_PAYLOAD_SIZE THEN Reject(413)
          ELSE IF verified.kind = "raise" THEN Reject(500)
          ELSE IF ~verified.value THEN Reject(401)
          ELSE IF "payload" \notin DOMAIN body THEN Reject(500)
          ELSE IF req.x_github_event \in {"issues", "pull_request"}
                  /\ body.payload = JsonList
          THEN Reject(500)
          ELSE IF req.x_github_event = "issues"
          THEN LET result == handle_issue_event(body.payload.action, body.payload,
                                                github_issues, db_ok)
               IN /\ hook_handlers' = <<[handler |-> "handle_issue_event",
                                         action |-> body.payload.action]>>
                  /\ hook_response' = result.response
                  /\ github_issues' = result.table
                  /\ UNCHANGED github_prs
          ELSE IF req.x_github_event = "pull_request"
          THEN LET result == handle_pull_request_event(body.payload.action,
                                 body.payload, github_prs, db_ok)
               IN /\ hook_handlers' = <<[handler |-> "handle_pull_request_event",
                                         action |-> body.payload.action]>>
                  /\ hook_response' = result.response
                  /\ github_prs' = result.table
                  /\ UNCHANGED github_issues
          ELSE /\ hook_handlers' = <<>>
               /\ hook_response' =
                    HTTPOk([status |-> IF req.x_github_event = "ping"
                                       THEN "success" ELSE "ignored"])
               /\ UNCHANGED <<github_issues, github_prs>>

GithubWebhook == \E req \in HookRequests, db_ok \in BOOLEAN : github_webhook(req, db_ok)

NextHook == GithubWebhook

InitHook ==
    /\ ProgramIdle
    /\ TrackIdle
    /\ CostIdle
    /\ BatchIdle
    /\ FetchIdle
    /\ RetryIdle
    /\ GITHUB_WEBHOOK_SECRET \in Secrets
    /\ github_prs = EmptyTable
    /\ hook_request = None
    /\ hook_handlers = <<>>
    /\ hook_response = NoResponse

SpecHook == InitHook /\ [][NextHook]_vars

----------------------------------------------------------------------------
(* External searches called again and again while time passes *)

MaxItems == 6

Url(i) == <<"u", i>>
\* the first two items carry the same link
RepeatedFirst(i) == IF i = 1 THEN 1 ELSE i - 1
\* items of a provider's JSON, the i-th with the link RepeatedFirst(i)
StackOverflowItems(n) ==
    [i \in 1..n |-> [title |-> "q", link |-> Url(RepeatedFirst(i)), score |-> 1,
                     is_answered |-> TRUE]]
GitHubItems(n) ==
    [i \in 1..n |-> [title |-> "q", html_url |-> Url(RepeatedFirst(i)),
                     repository_url |-> <<"repos", "o", "r">>,
                     state |-> "open", comments |-> 0]]
Ok(items) == [kind |-> "ok", data |-> [items |-> items]]
FailedReplies ==
    {[kind |-> "exception"], [kind |-> "status", code |-> 403],
     [kind |-> "unparsable"]}
StackOverflowReplies ==
    FailedReplies
    \cup {Ok(<<>>), Ok(StackOverflowItems(MaxItems)),
          Ok(<<[link |-> Url(1)]>>)}
GitHubReplies ==
    FailedReplies
    \cup {Ok(<<>>), Ok(GitHubItems(MaxItems)),
          Ok(<<[html_url |-> Url(1)]>>)}

InitSearch ==
    /\ ruleIn = None
    /\ ruleOut = Pending
    /\ KeysIdle
    /\ NormIdle
    /\ github_token \in BOOLEAN
    /\ EndpointIdle
    /\ AuxIdle

SearchIssues == {[title |-> TitleBug], [body |-> Str(BodyPlain)]}

\* the arguments of a search and what it handed back
SearchRecord(source, issue, reply, out) ==
    [source |-> source, issue |-> issue, reply |-> reply, t |-> now,
     outcome |-> out.outcome, requested |-> out.requested,
     lookup |-> out.lookup, save |-> out.save]

SearchStackOverflow(issue) ==
    \E lookup_fails \in BOOLEAN, save_fails \in BOOLEAN,
       reply \in StackOverflowReplies :
        LET out == search_stackoverflow(internet_search_cache, issue, now,
                                        lookup_fails, reply, save_fails)
        IN /\ internet_search_cache' = out.table
           /\ searchOut' = SearchRecord("stackoverflow", issue, reply, out)
           /\ UNCHANGED <<auxVars, ruleVars, keyVars, normVars, poolVars, github_token, storeVars,
                          localVars, reqVars>>

SearchGitHubIssues(issue) ==
    \E lookup_fails \in BOOLEAN, save_fails \in BOOLEAN,
       reply \in GitHubReplies :
        LET out == search_github_issues(internet_search_cache, issue, now,
                                        github_token, lookup_fails, reply,
                                        save_fails)
        IN /\ internet_search_cache' = out.table
           /\ searchOut' = SearchRecord("github", issue, reply, out)
           /\ UNCHANGED <<auxVars, ruleVars, keyVars, normVars, poolVars, github_token, storeVars,
                          localVars, reqVars>>

NextSearch ==
    \/ \E issue \in SearchIssues : SearchStackOverflow(issue)
    \/ \E issue \in SearchIssues : SearchGitHubIssues(issue)
    \/ Tick

SpecSearch == InitSearch /\ [][NextSearch]_vars

----------------------------------------------------------------------------
(* The normalizer applied to the Decisions of every tier *)

MaxSimilarity == 1000       \* cosine similarity 1.0 in thousandths

\* the LLM tier's results: fresh, and served from the response cache
NormLLMReplies ==
    {LLMObject(d, "m1") : d \in DecisionValues \cup {"MAYBE", ""}}
    \cup {WithoutDecision(LLMObject("CLOSE_FIXED", "m2"))}
NormLLMResults ==
    {ParseLLMResponse([kind |-> "text", json |-> "object", object |-> o,
                       usage |-> u]).value :
        o \in NormLLMReplies, u \in LLMUsages}
\* replies in which the LLM filled in fields of the old schema as well
NormLegacyReplies ==
    {Set(LLMObject(d, "m1"), "confidence", c) :
        d \in DecisionValues, c \in {0, 200, 1500}}
    \cup {Set(Set(LLMObject(d, "m1"), "priority_score", 9),
              "needs_response", TRUE) : d \in DecisionValues}

NormRuleEvidence ==
    {<<MkSimilarIssues(<<sim>>), <<>>, <<>>>> : sim \in {951, MaxSimilarity}}
    \cup {<<<<>>, <<>>, MkDocLinks(<<sim>>)>> : sim \in {801, MaxSimilarity}}
    \cup {<<<<>>, MkCodeMatches(<<sim>>), <<>>>> : sim \in {801, MaxSimilarity}}
NormRuleResults ==
    {apply_smart_rules([issue_number |-> 1, title |-> TitleAdd,
                        body |-> Str(BodyEnable), state |-> "open"],
                       e[1], e[2], e[3], u).value :
        e \in NormRuleEvidence, u \in RepoUrls}

NormInputs ==
    {[origin |-> "llm", result |-> r] : r \in NormLLMResults}
    \cup {[origin |-> "cache", result |-> FromCache(r)] : r \in NormLLMResults}
    \cup {[origin |-> "llm_legacy", result |-> r] : r \in NormLegacyReplies}
    \cup {[origin |-> "fallback", result |-> FallbackDecision(e)] :
            e \in {"APIError", "JSONDecodeError", "TypeError"}}
    \cup {[origin |-> "rule", result |-> r] : r \in NormRuleResults \ {None}}

InitNormalize ==
    /\ ruleIn = None
    /\ ruleOut = Pending
    /\ KeysIdle
    /\ normIn \in NormInputs
    /\ normOut = Pending
    /\ github_token = TRUE
    /\ EndpointIdle
    /\ AuxIdle

\* triage.py lines 518 and 564
CallTransformAnalysisResult ==
    /\ normOut = Pending
    /\ normOut' = Return(_transform_analysis_result(normIn.result))
    /\ UNCHANGED <<auxVars, ruleVars, keyVars, normIn, poolVars, searchVars,
                   storeVars, localVars, reqVars>>

NextNormalize == CallTransformAnalysisResult

SpecNormalize == InitNormalize /\ [][NextNormalize]_vars

----------------------------------------------------------------------------
(* Cache keys of two calls, as the endpoint computes them *)

TitleB == <<"B">>
TitleBColon == <<"B", ":">>
BodyX == <<"x">>
BodyColonX == <<":", "x">>

KeyIssues ==
    [issue_number : {1}, title : Titles, state : {"open"},
     body : {None, Str(<<>>), Str(BodyPlain)}]
    \cup [issue_number : {1}, title : {TitleB, TitleBColon}, state : {"open"},
          body : {Str(BodyX), Str(BodyColonX)}]

KeyCalls == [issue : KeyIssues, evidence : EndpointEvidence]

InitKeys ==
    /\ ruleIn = None
    /\ ruleOut = Pending
    /\ keyIn \in [first : KeyCalls, second : KeyCalls]
    /\ keyOut = Pending
    /\ NormIdle
    /\ github_token = TRUE
    /\ EndpointIdle
    /\ AuxIdle

\* triage.py lines 552-561 followed by triage_optimizer.py line 547, twice
KeyOf(c) ==
    _get_cache_key(c.issue,
                   BuildContext(c.evidence,
                                [stackoverflow |-> <<>>, github_issues |-> <<>>]))

ComputeKeys ==
    /\ keyOut = Pending
    /\ keyOut' = [kind |-> "computed",
                  first |-> KeyOf(keyIn.first),
                  second |-> KeyOf(keyIn.second)]
    /\ UNCHANGED <<auxVars, ruleVars, keyIn, normVars, poolVars, searchVars, storeVars, localVars, reqVars>>

NextKeys == ComputeKeys

SpecKeys == InitKeys /\ [][NextKeys]_vars

----------------------------------------------------------------------------
(* Claims about the rule engine, checked under SpecRules *)

TopSim(list) == IF Len(list) = 0 THEN -1 ELSE list[1].similarity
RuleCalled == ruleOut # Pending
RuleDecided(decision, rule) ==
    /\ ruleOut.kind = "return"
    /\ ruleOut.value # None
    /\ ruleOut.value.decision = decision
    /\ ruleOut.value.rule_matched = rule
RuleDecision(decision) ==
    /\ ruleOut.kind = "return"
    /\ ruleOut.value # None
    /\ ruleOut.value.decision = decision
\* the issue text holds one of the indicator words (a NULL body holds none)
TextHasIndicator(issue) ==
    \E indicator \in feature_indicators :
        \/ Contains(Lower(issue.title), indicator)
        \/ issue.body # None /\ Contains(Lower(issue.body.str), indicator)

\* C1: the rules are tried in the order exact-duplicate, answered-in-docs,
\* exists-in-code and the first one that holds decides alone: a top similar
\* issue above 0.95 gives CLOSE_DUPLICATE whatever the doc and code matches
\* are, and without it a top doc match above 0.80 gives ANSWER_FROM_DOCS
\* whatever the code matches are.
C1_FirstRuleWins ==
    RuleCalled =>
        /\ TopSim(ruleIn.similar_issues) > 950
              => RuleDecided("CLOSE_DUPLICATE", "exact_duplicate")
        /\ (TopSim(ruleIn.similar_issues) <= 950 /\ TopSim(ruleIn.doc_links) > 800)
              => RuleDecided("ANSWER_FROM_DOCS", "found_in_docs")

C1_Witness ==
    /\ RuleCalled
    /\ TopSim(ruleIn.similar_issues) = 951
    /\ TopSim(ruleIn.doc_links) = 801
    /\ TopSim(ruleIn.code_matches) = 801
    /\ TextHasIndicator(ruleIn.issue)
    /\ RuleDecided("CLOSE_DUPLICATE", "exact_duplicate")

\* C2: the thresholds are exclusive: a top similar issue at exactly 0.950
\* never yields CLOSE_DUPLICATE while 0.951 always does, and a top doc or
\* code match at exactly 0.800 triggers neither ANSWER_FROM_DOCS nor
\* CLOSE_EXISTS.
C2_ThresholdsExclusive ==
    RuleCalled =>
        /\ TopSim(ruleIn.similar_issues) = 950 => ~RuleDecision("CLOSE_DUPLICATE")
        /\ TopSim(ruleIn.similar_issues) = 951 => RuleDecision("CLOSE_DUPLICATE")
        /\ TopSim(ruleIn.doc_links) = 800 => ~RuleDecision("ANSWER_FROM_DOCS")
        /\ TopSim(ruleIn.code_matches) = 800 => ~RuleDecision("CLOSE_EXISTS")

C2_Witness ==
    /\ RuleCalled
    /\ TopSim(ruleIn.similar_issues) = 950
    /\ TopSim(ruleIn.doc_links) = 800
    /\ TopSim(ruleIn.code_matches) = 800
    /\ TextHasIndicator(ruleIn.issue)
    /\ ruleOut = Return(None)

\* C3: when rules 1 and 2 do not match, the result is CLOSE_EXISTS exactly
\* when the top code match is above 0.80 and the issue title or body holds
\* a feature-request indicator word, and otherwise it is null (no match).
C3_ExistsIffCodeAndIndicator ==
    (/\ RuleCalled
     /\ TopSim(ruleIn.similar_issues) <= 950
     /\ TopSim(ruleIn.doc_links) <= 800)
    => IF TopSim(ruleIn.code_matches) > 800 /\ TextHasIndicator(ruleIn.issue)
       THEN RuleDecided("CLOSE_EXISTS", "exists_in_code")
       ELSE ruleOut = Return(None)

----------------------------------------------------------------------------
(* Claims about the analyze endpoint, checked under Spec *)

CallIndices == 1..Len(calls)
RuleTierSaid(i, out) == calls[i].op = "rules" /\ calls[i].out = out
TierOps == {"rules", "web", "cache_key", "cache_get", "llm", "cache_put",
            "store", "track"}

\* C4: in every run of the endpoint the response cache is looked up only
\* after the rule engine returned no match, the LLM is invoked only after
\* the rule engine returned no match and the cache lookup gave nothing (a
\* miss, or a failed lookup that the code takes for a miss), and a run in
\* which a rule matched holds no web search, cache lookup or LLM call.
C4_TierOrder ==
    \A i \in CallIndices :
        /\ calls[i].op = "cache_get"
              => \E j \in 1..(i - 1) : RuleTierSaid(j, "none")
        /\ calls[i].op = "llm"
              => /\ \E j \in 1..(i - 1) : RuleTierSaid(j, "none")
                 /\ \E j \in 1..(i - 1) :
                        /\ calls[j].op = "cache_get"
                        /\ calls[j].out \in {"miss", "failed"}
        /\ RuleTierSaid(i, "match")
              => \A j \in CallIndices :
                    calls[j].op \notin {"web", "cache_get", "llm"}

C4_Witness ==
    /\ pc = "idle"
    /\ response.status = 200
    /\ \E i \in CallIndices : calls[i].op = "llm" /\ calls[i].out = "ok"
    /\ \E i \in CallIndices : calls[i].op = "cache_get" /\ calls[i].out = "miss"

\* C5: for an issue that exists in the store, also one with a NULL or empty
\* body, the endpoint answers 200 with an object that carries a decision
\* field, whichever collaborator failed during the call.
C5_AlwaysDecision ==
    (request \in DOMAIN github_issues /\ response # NoResponse)
    => /\ response.status = 200
       /\ "decision" \in DOMAIN response.body

LastCall == calls[Len(calls)]
AnsweredFromCache ==
    \E i \in CallIndices : calls[i].op = "cache_get" /\ calls[i].out = "hit"
LLMCountersUnchanged ==
    /\ api_costs'.claude_api_calls = api_costs.claude_api_calls
    /\ api_costs'.claude_cost_usd = api_costs.claude_cost_usd

\* C11: the last step of a request answered from the response cache returns
\* a result with from_cache = true and cost_saved = 0.015 and leaves the
\* claude_api_calls and claude_cost_usd counters of today's row as they were.
C11_CacheHitNotBilled ==
    [][(pc = "track_ai" /\ AnsweredFromCache)
       => /\ response'.body.from_cache = TRUE
          /\ response'.body.cost_saved = CACHE_COST_SAVED
          /\ LLMCountersUnchanged]_vars

\* C12 as stated: the last step of a request decided by a rule adds 0.02 to
\* cost_saved_usd of today's row, leaves claude_api_calls and
\* claude_cost_usd as they were, and the returned Decision has no api_cost.
C12_RuleSavingsTracked ==
    [][(pc = "track_rule")
       => /\ api_costs'.cost_saved_usd = api_costs.cost_saved_usd + RULE_COST_SAVED
          /\ LLMCountersUnchanged
          /\ "api_cost" \notin DOMAIN response'.body]_vars

\* C12 amended: the same when the tracker's write goes through; a write that
\* fails is dropped and leaves the whole row as it was, and the Decision is
\* returned without api_cost either way.
C12_RuleSavingsTrackedIfWritten ==
    [][(pc = "track_rule")
       => /\ IF calls'[Len(calls')].out = "ok"
             THEN api_costs'.cost_saved_usd
                     = api_costs.cost_saved_usd + RULE_COST_SAVED
             ELSE api_costs' = api_costs
          /\ LLMCountersUnchanged
          /\ "api_cost" \notin DOMAIN response'.body]_vars

C12_Witness ==
    /\ pc = "idle"
    /\ response.status = 200
    /\ "rule_matched" \in DOMAIN response.body
    /\ LastCall.op = "track"
    /\ LastCall.out = "ok"
    /\ LastCall.cost_saved = RULE_COST_SAVED
    /\ api_costs.cost_saved_usd = RULE_COST_SAVED
    /\ api_costs.claude_api_calls = 0

----------------------------------------------------------------------------
(* Claims about analyze_with_claude_optimized, checked under SpecCache *)

IsFallback(out) ==
    /\ out.kind = "return"
    /\ "decision" \in DOMAIN out.value
    /\ out.value.decision = "NEEDS_INVESTIGATION"
    /\ "error" \in DOMAIN out.value

\* a step of the function raised: the key computation, or the LLM call, the
\* parse of its reply or the cost computation
AnalyzeStepRaised ==
    \E i \in CallIndices :
        \/ calls[i].op = "cache_key" /\ calls[i].out = "raise"
        \/ calls[i].op = "llm" /\ calls[i].out # "ok"

\* C7: whenever a step of analyze_with_claude_optimized raises, the function
\* returns the fallback Decision (NEEDS_INVESTIGATION with an error field)
\* and no exception reaches its caller.
C7_FallbackOnAnyException ==
    AnalyzeStepRaised => IsFallback(ana_out)

MalformedReply(llm) ==
    /\ llm.kind = "text"
    /\ llm.json = "object"
    /\ \/ "decision" \notin DOMAIN llm.object
       \/ llm.object.decision \notin DecisionValues

\* C8: when the LLM replies with a JSON object that has no decision field or
\* a decision outside the 8 values, the function returns the fallback
\* Decision and not the malformed object.
C8_MalformedGivesFallback ==
    (/\ ana_out # Pending
     /\ \E i \in CallIndices :
            calls[i].op = "llm" /\ MalformedReply(calls[i].reply))
    => IsFallback(ana_out)

ContentFields ==
    {"decision", "primary_message", "evidence_bullets", "draft_response",
     "action_button_text", "action_button_style", "related_links"}
ContentOf(r) == [k \in ContentFields \cap DOMAIN r |-> r[k]]

\* the lookup step of a call whose key got its latest LLM result less than
\* 7 days ago
SecondCallInTTL ==
    /\ pc = "cache_get"
    /\ cur_key \in DOMAIN llm_log
    /\ now < llm_log[cur_key].t + RESPONSE_TTL_DAYS

ServedFromCache ==
    /\ pc' = "transform_ai"
    /\ ana_out'.kind = "return"
    /\ ana_out'.value.from_cache = TRUE
    /\ ContentOf(ana_out'.value) = ContentOf(llm_log[cur_key].result)
    /\ llm_log' = llm_log

\* C9 as stated: a call with the issue and context of an earlier call that
\* got its Decision from the LLM less than 7 days before (no other write to
\* the key in between) does not invoke the LLM and returns the same content
\* with from_cache = true.
C9_SecondCallFromCache ==
    [][SecondCallInTTL => ServedFromCache]_vars

\* C9 amended: the same, provided the response cache took the first result
\* and answers the second lookup; a failed save or a failed lookup is
\* swallowed and the call goes to the LLM again.
C9_SecondCallFromCacheIfStored ==
    [][(/\ SecondCallInTTL
        /\ llm_log[cur_key].saved
        /\ calls'[Len(calls')].out # "failed")
       => ServedFromCache]_vars

C9_Witness ==
    /\ pc = "transform_ai"
    /\ now = RESPONSE_TTL_DAYS - 1
    /\ calls[Len(calls)] = Call("cache_get", "hit")
    /\ cur_key \in DOMAIN llm_log
    /\ llm_log[cur_key].t = 0
    /\ llm_log[cur_key].saved
    /\ ana_out.kind = "return"
    /\ ana_out.value.from_cache = TRUE

Fresh(key) ==
    /\ key \in DOMAIN claude_response_cache
    /\ claude_response_cache[key].expires_at > now
Stale(key) ==
    /\ key \in DOMAIN claude_response_cache
    /\ claude_response_cache[key].expires_at <= now

\* C13: a lookup never changes the table; it serves the stored payload only
\* while expires_at > now (and does serve it then, when the store answers);
\* at or after expires_at it is a miss and the entry stays in the table; a
\* save that the store takes replaces the payload of its key and sets
\* expires_at to the save time plus 7 days, other keys untouched.
C13_LazyExpiry ==
    [][/\ (pc = "cache_get")
          => /\ claude_response_cache' = claude_response_cache
             /\ (pc' = "transform_ai")
                   => /\ Fresh(cur_key)
                      /\ ContentOf(ana_out'.value)
                           = ContentOf(claude_response_cache[cur_key].response)
             /\ (Fresh(cur_key) /\ calls'[Len(calls')].out # "failed")
                   => pc' = "transform_ai"
             /\ Stale(cur_key) => pc' = "llm"
       /\ (pc = "cache_put" /\ calls'[Len(calls')].out = "ok")
          => /\ cur_key \in DOMAIN claude_response_cache'
             /\ claude_response_cache'[cur_key].response = cur_result
             /\ claude_response_cache'[cur_key].expires_at
                   = now + RESPONSE_TTL_DAYS
             /\ \A k \in DOMAIN claude_response_cache \ {cur_key} :
                   /\ k \in DOMAIN claude_response_cache'
                   /\ claude_response_cache'[k] = claude_response_cache[k]
      ]_vars

\* a lookup at the very instant of expiry has missed and the entry is still there
C13_Witness ==
    /\ pc = "llm"
    /\ LastCall = Call("cache_get", "miss")
    /\ cur_key \in DOMAIN claude_response_cache
    /\ claude_response_cache[cur_key].expires_at = now

\* what the function returns for an LLM reply when the cache is empty
WithEmptyCache(llm) ==
    LET parsed == ParseLLMResponse(llm)
    IN IF parsed.kind = "raise" THEN FallbackDecision(parsed.error)
       ELSE parsed.value

CacheFailedAt(i) ==
    /\ calls[i].op \in {"cache_get", "cache_put"}
    /\ calls[i].out = "failed"

\* C15: in a call where the lookup or the save of the response cache failed,
\* the failed lookup is followed by the LLM call, and the function raises
\* nothing and returns what it returns for that LLM reply with an empty cache.
C15_CacheFailureAbsorbed ==
    \A i \in CallIndices :
        CacheFailedAt(i)
        => /\ (calls[i].op = "cache_get" /\ Len(calls) > i)
                 => calls[i + 1].op = "llm"
           /\ ana_out # Pending
                 => /\ ana_out.kind = "return"
                    /\ \E j \in CallIndices :
                          /\ calls[j].op = "llm"
                          /\ ana_out.value = WithEmptyCache(calls[j].reply)

C15_Witness ==
    /\ ana_out.kind = "return"
    /\ "error" \notin DOMAIN ana_out.value
    /\ \E i \in CallIndices : calls[i] = Call("cache_get", "failed")
    /\ \E i \in CallIndices : calls[i] = Call("cache_put", "failed")
    /\ cur_key \notin DOMAIN claude_response_cache

----------------------------------------------------------------------------
(* Claims about concurrent saves, checked under SpecUpsert *)

AllDone == \A p \in Procs : workers[p].pc = "done"
EntriesFor(key) == {k \in DOMAIN claude_response_cache : k = key}

\* C14: once all concurrent calls have finished, in whatever order their
\* lookups, LLM calls and saves interleaved, every key that took a save has
\* exactly one entry in the table, and it holds the payload of the save
\* that committed last.
C14_LastWriteWins ==
    AllDone
    => \A key \in DOMAIN last_commit :
          /\ Cardinality(EntriesFor(key)) = 1
          /\ claude_response_cache[key].response = last_commit[key]

\* two calls missed on the same key and both saved, with different payloads
C14_Witness ==
    /\ AllDone
    /\ \E p, q \in Procs :
          /\ p # q
          /\ workers[p].key = workers[q].key
          /\ workers[p].saved /\ workers[q].saved
          /\ workers[p].result # workers[q].result
          /\ claude_response_cache[workers[p].key].response = workers[q].result

----------------------------------------------------------------------------
(* Claims about the external searches, checked under SpecSearch *)

Searched == searchOut # Pending
SearchedWithTitle == Searched /\ "title" \in DOMAIN searchOut.issue
ProviderFailed ==
    /\ searchOut.requested
    /\ searchOut.reply.kind \in {"exception", "status", "unparsable"}
CacheStoreFailed == searchOut.lookup = "failed" \/ searchOut.save = "failed"
ReturnedEmpty == searchOut.outcome = Return(<<>>)

\* C16 as stated: a search for an issue with a title raises nothing, and it
\* returns the empty list when the request fails (exception, non-200 status,
\* unparsable body) and when the lookup or the save of the search cache fails.
C16_FailuresGiveEmptyList ==
    SearchedWithTitle
    => /\ searchOut.outcome.kind = "return"
       /\ (ProviderFailed \/ CacheStoreFailed) => ReturnedEmpty

\* the links of the first five items of the provider's answer
AnsweredLinks ==
    LET items == Take(Get(searchOut.reply.data, "items", <<>>), MAX_RESULTS)
    IN [i \in 1..Len(items) |->
          IF searchOut.source = "github" THEN items[i].html_url
          ELSE items[i].link]

\* C16 amended: a search for an issue with a title raises nothing; it
\* returns the empty list when the request fails; a failed lookup is taken
\* for a miss (the request is sent) and a failed save is dropped, and the
\* search then returns what the provider answered, not the empty list.
C16_FailuresAbsorbed ==
    SearchedWithTitle
    => /\ searchOut.outcome.kind = "return"
       /\ ProviderFailed => ReturnedEmpty
       /\ searchOut.lookup = "failed" => searchOut.requested
       /\ searchOut.save = "failed"
             => /\ Len(searchOut.outcome.value) = Len(AnsweredLinks)
                /\ \A i \in 1..Len(AnsweredLinks) :
                      searchOut.outcome.value[i].url = AnsweredLinks[i]

\* lookup and save both failed and the provider's list came back all the same
C16_Witness ==
    /\ SearchedWithTitle
    /\ searchOut.lookup = "failed"
    /\ searchOut.save = "failed"
    /\ searchOut.outcome.kind = "return"
    /\ Len(searchOut.outcome.value) = MAX_RESULTS

NoRepeatedUrl(list) ==
    \A i, j \in 1..Len(list) : i # j => list[i].url # list[j].url
TopFiveDeduplicated(list) == Len(list) <= MAX_RESULTS /\ NoRepeatedUrl(list)

\* C17: every list a search returns, and every list in the search cache, has
\* at most 5 entries and no two entries with the same URL.
C17_TopFiveNoRepeats ==
    /\ (Searched /\ searchOut.outcome.kind = "return")
          => TopFiveDeduplicated(searchOut.outcome.value)
    /\ \A key \in DOMAIN internet_search_cache :
          TopFiveDeduplicated(internet_search_cache[key].results)

\* C18: a search that follows, less than 24 hours later, a search of the
\* same source for the same title that the provider answered with status
\* 200 and a list, sends no request and returns the list of the first one,
\* the empty list included.
C18_ServedFor24Hours ==
    [][(/\ now' = now
        /\ SearchedWithTitle
        /\ searchOut.requested
        /\ searchOut.reply.kind = "ok"
        /\ searchOut'.source = searchOut.source
        /\ searchOut'.issue = searchOut.issue
        /\ now < searchOut.t + SEARCH_TTL_DAYS)
       => /\ ~searchOut'.requested
          /\ searchOut'.outcome = searchOut.outcome]_vars

----------------------------------------------------------------------------
(* Claims about the cost tracker, checked under SpecTrack *)

Counters == DOMAIN NoCosts

\* what one call adds to each counter (lines 735-742)
DeltaOf(args) ==
    [claude_api_calls |-> IF args.claude_cost > 0 THEN 1 ELSE 0,
     claude_cost_usd |-> args.claude_cost,
     cost_saved_usd |-> args.cost_saved,
     cache_hits |-> IF args.cache_hit THEN 1 ELSE 0,
     cache_misses |-> IF args.cache_hit THEN 0 ELSE 1,
     claude_tokens_cached |-> args.cached_tokens]

RECURSIVE SumDeltas(_, _)
SumDeltas(ps, c) ==
    IF ps = {} THEN 0
    ELSE LET p == CHOOSE q \in ps : TRUE
         IN DeltaOf(tracker_calls[p].args)[c] + SumDeltas(ps \ {p}, c)

AllTracked == \A p \in Procs : tracker_calls[p].pc = "done"
Committed == {p \in Procs : tracker_calls[p].pc = "done"
                             /\ tracker_calls[p].committed}

\* C21 as stated: when the concurrent _track_cost_savings calls of one day
\* have all returned, each counter of the day's row equals its value before
\* the calls plus the sum of the deltas of all the calls.
C21_NoLostUpdate ==
    AllTracked
    => \A c \in Counters :
          api_costs[c] = api_costs_before[c] + SumDeltas(Procs, c)

\* C21, amended: ... plus the sum of the deltas of the calls whose write did
\* not fail, under every interleaving of the calls.
C21_NoLostUpdateOfWrites ==
    AllTracked
    => \A c \in Counters :
          api_costs[c] = api_costs_before[c] + SumDeltas(Committed, c)

\* every call committed, on a row that was there and on one they create
C21_Witness ==
    /\ AllTracked
    /\ Committed = Procs
    /\ api_costs_before = NoCosts
    /\ api_costs.cache_hits + api_costs.cache_misses = MaxProcs
    /\ api_costs.cost_saved_usd > 0
    /\ api_costs.claude_cost_usd > 0

\* the call returns the fallback Decision in this step
ReturnsFallback == pc = "llm" /\ IsFallback(ana_out')
\* a call with the key of this one would find nothing fresh in the cache
NextLookupMisses ==
    _check_response_cache(claude_response_cache', cur_key, now', FALSE) = None
NoFallbackCached ==
    \A k \in DOMAIN claude_response_cache' :
        ~IsFallback(Return(claude_response_cache'[k].response))
LookupMissed ==
    \E i \in CallIndices : calls[i].op = "cache_get" /\ calls[i].out = "miss"

\* C25 as stated: when analyze_with_claude_optimized returns the fallback
\* Decision, the response cache is left as it was and holds no fallback
\* Decision, and a lookup of the call's key finds nothing, so that the next
\* call with the same issue and context invokes the LLM.
C25_FailureNotCached ==
    [][ReturnsFallback
       => /\ claude_response_cache' = claude_response_cache
          /\ NoFallbackCached
          /\ NextLookupMisses]_vars

\* C25, amended: ... and a lookup of the call's key finds nothing unless the
\* call's own lookup failed, in which case it may find the Decision an
\* earlier call stored.
C25_FailureNotCachedByTheCall ==
    [][ReturnsFallback
       => /\ claude_response_cache' = claude_response_cache
          /\ NoFallbackCached
          /\ LookupMissed => NextLookupMisses]_vars

\* a call fell back on an expired entry of its key, which stays as it is
C25_Witness ==
    /\ pc = "transform_ai"
    /\ IsFallback(ana_out)
    /\ LookupMissed
    /\ cur_key \in DOMAIN claude_response_cache
    /\ claude_response_cache[cur_key].expires_at <= now

----------------------------------------------------------------------------
(* Claims about batch triage, checked under SpecBatch *)

Requested(t) == batch_tasks[t].pc # "idle"
\* the task has written its running status and not yet left its function
Running(t) ==
    batch_tasks[t].pc \in {"loop", "call", "triaging", "count", "except",
                           "clear"}
Completed(t) ==
    /\ batch_tasks[t].pc = "done"
    /\ batch_tasks[t].outcome = "completed"
\* no other batch run of the project was requested
OnlyRun(t) == \A u \in Tasks \ {t} : ~Requested(u)
Selected(t) ==
    {batch_tasks[t].issue_numbers[k] : k \in 1..Len(batch_tasks[t].issue_numbers)}
ErrorsFor(n) ==
    {k \in 1..Len(batch_triage_status.errors) :
        /\ "issue_number" \in DOMAIN batch_triage_status.errors[k]
        /\ batch_triage_status.errors[k].issue_number = n}

\* C23: when a batch run over N issues has ended, the triage of the issues
\* of F having raised, the status is completed, errors holds exactly one
\* entry for each issue of F and none for another issue, and processed is
\* N - |F|.
C23_BatchSurvivesFailures ==
    \A t \in Tasks :
        (Completed(t) /\ OnlyRun(t))
        => /\ batch_triage_status.status = "completed"
           /\ \A n \in Selected(t) :
                 Cardinality(ErrorsFor(n))
                    = IF n \in batch_tasks[t].raised THEN 1 ELSE 0
           /\ Len(batch_triage_status.errors)
                 = Cardinality(batch_tasks[t].raised)
           /\ batch_triage_status.processed
                 = Len(batch_tasks[t].issue_numbers)
                   - Cardinality(batch_tasks[t].raised)

\* C24, first half: within one batch run at most one triage is under way
Sequential ==
    \A t \in Tasks : Requested(t) => Cardinality(batch_tasks[t].open) <= 1
\* C24, second half: a status poll answered while an issue is being triaged
\* saw status running and that issue as current_issue
PollSawCurrentIssue ==
    batch_poll # Pending
    => \A x \in batch_poll.triaging :
          /\ batch_poll.seen.status = "running"
          /\ batch_poll.seen.current_issue = x.issue

\* C24: issues are triaged one after the other, and a status poll
\* answered while an issue is being triaged saw status running with that
\* issue as current_issue.
C24_SequentialAndObservable == Sequential /\ PollSawCurrentIssue

\* C26: when a batch run has ended as completed, each issue selected for
\* it has a stored triage result or an entry in errors.
C26_EveryIssueAccounted ==
    \A t \in Tasks :
        (Completed(t) /\ OnlyRun(t))
        => \A n \in Selected(t) :
              n \in issue_categories \/ ErrorsFor(n) # {}

\* C27: at no time are two batch triage tasks of the project running and
\* writing its status record.
C27_OneBatchPerProject ==
    Cardinality({t \in Tasks : Running(t)}) <= 1

----------------------------------------------------------------------------
(* Claims about fetch_with_batches, checked under SpecFetch *)

\* C28: an invocation of fetch_with_batches calls fetch_func at most
\* max_batches times, whatever the fetches and the rate-limit checks give,
\* and it comes to its end.
C28_BoundedBatches ==
    /\ [](fetch_pc # "idle" => fetch_calls <= fetch_args.max_batches)
    /\ (fetch_pc # "idle") ~> (fetch_pc = "done")

\* the default of 10 batches was used up, by failing fetches among others
C28_Witness ==
    /\ fetch_pc = "done"
    /\ fetch_args.max_batches = MAX_BATCHES_PER_PHASE
    /\ fetch_calls = MAX_BATCHES_PER_PHASE
    /\ fetch_out.value.status = "completed"
    /\ fetch_out.value.limit_reached = TRUE

----------------------------------------------------------------------------
(* Claims about retry_with_exponential_backoff, checked under SpecRetry *)

Invocations == Len(retry_log)
Succeeded(i) == retry_log[i].outcome.kind = "return"
GitHubError(i) ==
    /\ retry_log[i].outcome.kind = "raise"
    /\ retry_log[i].outcome.error
          \in {"GithubException", "RateLimitExceededException"}
RateLimited(i) ==
    /\ retry_log[i].outcome.kind = "raise"
    /\ retry_log[i].outcome.error = "RateLimitExceededException"
\* the invocations that were followed by another one
Retried == 1..(Invocations - 1)

\* C29 as stated: the wrapped function is invoked at most max_retries + 1
\* times per call, and never again after an invocation that returned or
\* that raised a GitHub error with a status other than 502, 503 and 504.
C29_BoundedRetries ==
    retry_pc # "idle"
    => /\ Invocations <= Max(0, max_retries + 1)
       /\ \A i \in Retried :
             /\ ~Succeeded(i)
             /\ GitHubError(i)
                   => retry_log[i].outcome.status \in RETRYABLE_STATUS

\* C29, amended: ... or that raised a GitHub error, other than a rate-limit
\* error, with a status other than 502, 503 and 504; no other exception is
\* retried either.
C29_BoundedRetriesOfTransientErrors ==
    retry_pc # "idle"
    => /\ Invocations <= Max(0, max_retries + 1)
       /\ \A i \in Retried :
             /\ ~Succeeded(i)
             /\ GitHubError(i)
             /\ \/ RateLimited(i)
                \/ retry_log[i].outcome.status \in RETRYABLE_STATUS

\* all the retries were used on 503s and a rate limit, then a 404 came
C29_Witness ==
    /\ retry_pc = "done"
    /\ max_retries = DEFAULT_MAX_RETRIES
    /\ Invocations = DEFAULT_MAX_RETRIES + 1
    /\ GitHubError(1)
    /\ retry_log[1].outcome.status = 503
    /\ RateLimited(2)
    /\ GitHubError(Invocations)
    /\ retry_log[Invocations].outcome.status = 404
    /\ retry_out = retry_log[Invocations].outcome

----------------------------------------------------------------------------
(* Claims about the cost fields, checked under SpecCost *)

\* C22: for every usage report with non-negative token counts the total cost
\* computed for the reply is at least 0.
C22_CostNonNegative ==
    costOut # Pending => costOut.value.total_cost_usd >= 0

----------------------------------------------------------------------------
(* Claims about the normalizer, checked under SpecNormalize *)

Normalized == normOut # Pending
Categories == {"critical", "bug", "feature_request", "question", "low_priority"}
NewSchemaOnly ==
    /\ normIn.origin \in {"llm", "cache"}
    /\ "decision" \in DOMAIN normIn.result
    /\ normIn.result.decision \in DecisionValues

\* C19: a Decision with one of the 8 decision values and no field of the old
\* schema comes out of the normalizer with a category, a confidence and a
\* priority_score that are set (a category name, a number in [0, 1], a
\* number) and with a boolean needs_response.
C19_NormalizerTotal ==
    (Normalized /\ NewSchemaOnly)
    => /\ {"primary_category", "confidence", "priority_score", "needs_response"}
             \subseteq DOMAIN normOut.value
       /\ normOut.value.primary_category \in Categories
       /\ normOut.value.confidence \in 0..MaxSimilarity
       /\ normOut.value.priority_score \in 0..10
       /\ normOut.value.needs_response \in BOOLEAN

C19_Witness ==
    /\ Normalized
    /\ NewSchemaOnly
    /\ normIn.result.decision = "CLOSE_FIXED"
    /\ normOut.value.primary_category = "bug"
    /\ normOut.value.priority_score = DEFAULT_PRIORITY
    /\ normOut.value.needs_response = FALSE

TableRange ==
    \A d \in DOMAIN DECISION_TO_CONFIDENCE :
        /\ 650 <= DECISION_TO_CONFIDENCE[d]
        /\ DECISION_TO_CONFIDENCE[d] <= DECISION_TO_CONFIDENCE["CLOSE_DUPLICATE"]
        /\ DECISION_TO_CONFIDENCE["CLOSE_DUPLICATE"] = 950

\* C20: for a result with a decision, a confidence that is present is kept
\* (a rule's result keeps the matched similarity) and a missing one is taken
\* from the per-decision table, whose values lie in [0.65, 0.95] with
\* CLOSE_DUPLICATE the highest; a normalized Decision of the rule tier or of
\* the fallback path has its confidence in [0, 1].
C20_ConfidenceKeptOrTabled ==
    (Normalized /\ "decision" \in DOMAIN normIn.result /\ normIn.result.decision # "")
    => /\ "confidence" \in DOMAIN normOut.value
       /\ IF "confidence" \in DOMAIN normIn.result
          THEN normOut.value.confidence = normIn.result.confidence
          ELSE normOut.value.confidence
                  = Get(DECISION_TO_CONFIDENCE, normIn.result.decision,
                        DEFAULT_CONFIDENCE)
       /\ TableRange
       /\ normIn.origin \in {"rule", "fallback"}
             => normOut.value.confidence \in 0..MaxSimilarity

\* a duplicate found at similarity 1.0 keeps 1.0, above the table's 0.95
C20_Witness ==
    /\ Normalized
    /\ normIn.origin = "rule"
    /\ normIn.result.decision = "CLOSE_DUPLICATE"
    /\ normIn.result.confidence = MaxSimilarity
    /\ normOut.value.confidence = MaxSimilarity

----------------------------------------------------------------------------
(* Claims about the cache key, checked under SpecKeys *)

TopIds(list, field) ==
    {list[i][field] : i \in 1..Min(Len(list), TOP_SIMILAR_KEPT)}
EvidenceIds(ev) ==
    [issues |-> TopIds(ev.similar_issues, "issue_number"),
     prs |-> TopIds(ev.similar_prs, "pr_number"),
     code |-> TopIds(ev.code_matches, "start_line"),
     docs |-> TopIds(ev.doc_links, "start_line")]

\* C10: of two calls whose keys are computed, those with different issue
\* titles get different keys, and those for the same issue whose evidence
\* has a different set of top-3 identifiers get different keys.
C10_KeySensitive ==
    (/\ keyOut # Pending
     /\ keyOut.first.kind = "return"
     /\ keyOut.second.kind = "return")
    => /\ keyIn.first.issue.title # keyIn.second.issue.title
             => keyOut.first.value # keyOut.second.value
       /\ (/\ keyIn.first.issue = keyIn.second.issue
           /\ EvidenceIds(keyIn.first.evidence) # EvidenceIds(keyIn.second.evidence))
             => keyOut.first.value # keyOut.second.value

----------------------------------------------------------------------------
(* Claims about the webhook, checked under SpecHook *)

\* the X-Hub-Signature-256 header of the last request is "sha256=" followed
\* by the digest of its body under the configured, non-empty secret
HeaderVerified ==
    /\ hook_request # None
    /\ GITHUB_WEBHOOK_SECRET # ""
    /\ "x_hub_signature_256" \in DOMAIN hook_request
    /\ hook_request.x_hub_signature_256 =
         Str(<<"sha256", "=",
               Hexdigest(GITHUB_WEBHOOK_SECRET, hook_request.body.text)>>)

RowsUntouched ==
    /\ github_issues' = github_issues
    /\ github_prs' = github_prs

\* C30: a webhook request whose X-Hub-Signature-256 header is not verified
\* against the configured secret (secret unset, header missing or malformed,
\* digest different) runs no event handler and inserts or updates no row of
\* github_issues or github_prs.
C30_UnverifiedChangesNothing ==
    [][~HeaderVerified' => (hook_handlers' = <<>> /\ RowsUntouched)]_vars

\* a request signed under another key is turned away with 401 after earlier
\* verified requests have written rows
C30_Witness ==
    /\ hook_request # None
    /\ ~HeaderVerified
    /\ "x_hub_signature_256" \in DOMAIN hook_request
    /\ hook_request.x_hub_signature_256 =
         Str(<<"sha256", "=", Hexdigest("guess", hook_request.body.text)>>)
    /\ hook_request.x_github_event = "issues"
    /\ hook_request.body.text = "close-1"
    /\ hook_response = HTTPError(401)
    /\ hook_handlers = <<>>
    /\ MaxIssue \in DOMAIN github_issues
    /\ github_issues[1].state = "open"

====
